---- MODULE Spec2Model ----
(***************************************************************************)
(* Model of the multi-agent framework coordination core:                   *)
(*   Coordinator (coordinator.ts), PRManager / GitHubClient (same file),   *)
(*   MessageBus and AgentRegistry (message-bus.ts).                        *)
(*                                                                         *)
(* An asynchronous method is split at its await points: one action is the  *)
(* code that runs from one suspension to the next.  calls[p].pc is the     *)
(* await at which call p is suspended.                                     *)
(***************************************************************************)
EXTENDS Integers, Sequences, FiniteSets, TLC

VARIABLES
    state,            \* Coordinator._state
    runHistory,       \* Coordinator.runHistory
    registry,         \* AgentRegistry.agents: ids in Map insertion order
    factories,        \* AgentRegistry.factories: the types with a factory
    agents,           \* AgentRegistry.agents: id -> the agent stored
    regLast,          \* outcome of the last direct AgentRegistry call
    messageHandlers,  \* MessageBus.messageHandlers: id -> handler sequence
    decisions,        \* PRManager.decisions: PR number -> last decision
    config,           \* SystemConfig (the autoMerge policy)
    gateway,          \* what the source-control gateway answers
    gatewayCalls,     \* mergePR / closePR calls received by the gateway
    calls,            \* the coordinator calls in flight, per caller slot
    clock,            \* Date / Date.now(): one tick per API call
    returned,         \* what run() calls returned to their callers, in order
    mgrLast,          \* outcome of the last direct PRManager call
    recorded,         \* every decision written to the store, in order
    delivery,         \* the latest publish on the bus and its handlers
    lastCall          \* the last direct call of a method that changes nothing

vars == <<state, runHistory, registry, factories, agents, regLast,
          messageHandlers, decisions, config, gateway, gatewayCalls, calls,
          clock, returned, mgrLast, recorded, delivery, lastCall>>

----------------------------------------------------------------------------
(* Bounds and input sets *)

MaxRuns == 2
MaxPRRuns == 2
MaxMgrCalls == 2
MaxInits == 2
MaxSubscriptions == 2
MaxPublishes == 1
MaxPreviousRuns == 3
MaxRegistryCalls == 4
MaxPatterns == 2
MaxGlobLen == 3
MaxReturnRuns == 1
MaxConfigAgents == 2

\* caller slots: run() calls that can be in flight at once
Procs == {1, 2}
AgentIds == {"a1", "a2"}
PRNumbers == {1, 2}

CoordinatorStates == {"idle", "running", "processing", "error", "stopped"}
CIStatuses == {"pending", "success", "failure", "error", "cancelled"}
PRActions == {"merge", "close", "wait", "review"}
\* a gateway is not bound by the CIStatus type at run time
GatewayCIStatuses == CIStatuses \cup {"skipped"}
AgentResultStatuses == {"success"}

Some(x) == <<x>>
None == <<>>

Range(s) == {s[i] : i \in DOMAIN s}

RECURSIVE SelectSeqBy(_, _)
\* the subsequence of s whose elements are in the set S
SelectSeqBy(s, S) ==
    IF s = <<>> THEN <<>>
    ELSE IF Head(s) \in S THEN <<Head(s)>> \o SelectSeqBy(Tail(s), S)
         ELSE SelectSeqBy(Tail(s), S)

Registries == {<<>>, <<"a1">>, <<"a1", "a2">>}
AgentLists == {<<"ghost", "a2">>}
\* lists out of registration order, with an unknown id, with a repeated id
SelectLists ==
    {<<"a2", "a1">>, <<"a2", "ghost", "a1">>, <<"ghost">>, <<"a1", "a1">>}
Listings == {<<>>, <<1>>, <<2, 1>>, <<1, 2>>}

RunOptions ==
    [agents : {None} \cup {Some(l) : l \in AgentLists},
     skipPRProcessing : BOOLEAN,
     dryRun : BOOLEAN]

----------------------------------------------------------------------------
(* The source-control gateway (GitHubClient).  Its answers are inputs: the
   listing of open PRs and, per PR number, whether getPR resolves it, the CI
   status getCIStatus reports, the PR's autoMergeEnabled flag and whether
   allChecksPassed holds for the configured required checks. *)

PRFacts ==
    [resolves : BOOLEAN, ciStatus : GatewayCIStatuses,
     autoMergeEnabled : BOOLEAN, checksPassed : BOOLEAN]

Gateways == [openPRs : Listings, pr : [PRNumbers -> PRFacts]]

listOpenPRs == gateway.openPRs
getPR(n) == IF gateway.pr[n].resolves THEN Some(n) ELSE None
getCIStatus(n) == gateway.pr[n].ciStatus
allChecksPassed(n) == gateway.pr[n].checksPassed

\* GitHubClient.mergePR / closePR as the gateway sees them; `by` is the
\* clock tick of the API call (run, or direct manager call) that made it
MergeCall(n, by) == [op |-> "mergePR", prNumber |-> n, comment |-> None, by |-> by]
CloseCall(n, reason, by) ==
    [op |-> "closePR", prNumber |-> n, comment |-> Some(reason), by |-> by]

\* GitHubClient.getPR / getCIStatus as the gateway sees them
GetPRQuery(n) == [op |-> "getPR", prNumber |-> n]
GetCIStatusQuery(n) == [op |-> "getCIStatus", prNumber |-> n]
AllChecksPassedQuery(n) == [op |-> "allChecksPassed", prNumber |-> n]

----------------------------------------------------------------------------
(* PRManager *)

\* a decision that sends every status but 'success' and 'pending' to review
DecideReviewUnlessPending(n, ciStatus, now) ==
    IF ciStatus = "success" THEN
        [prNumber |-> n, action |-> "merge",
         reason |-> <<"All CI checks passed">>,
         timestamp |-> now, waitConditions |-> None]
    ELSE IF ciStatus # "pending" THEN
        [prNumber |-> n, action |-> "review",
         reason |-> <<"CI status: ", ciStatus>>,
         timestamp |-> now, waitConditions |-> None]
    ELSE
        [prNumber |-> n, action |-> "wait",
         reason |-> <<"CI checks still pending">>,
         timestamp |-> now,
         waitConditions |-> Some(<<"CI checks must complete">>)]

\* the decision processPR builds from the CI status (the if / else-if / else)
Decide(n, ciStatus, now) ==
    IF ciStatus = "success" THEN
        [prNumber |-> n, action |-> "merge",
         reason |-> <<"All CI checks passed">>,
         timestamp |-> now, waitConditions |-> None]
    ELSE IF ciStatus = "failure" \/ ciStatus = "error" THEN
        [prNumber |-> n, action |-> "review",
         reason |-> <<"CI status: ", ciStatus>>,
         timestamp |-> now, waitConditions |-> None]
    ELSE
        [prNumber |-> n, action |-> "wait",
         reason |-> <<"CI checks still pending">>,
         timestamp |-> now,
         waitConditions |-> Some(<<"CI checks must complete">>)]

\* a store that keeps the first decision it got for a PR number
recordDecisionKeepsFirst(store, d) ==
    [k \in (DOMAIN store) \cup {d.prNumber} |->
        IF k \in DOMAIN store THEN store[k] ELSE d]

\* PRManager.recordDecision: Map.set(decision.prNumber, decision)
recordDecision(store, d) ==
    [k \in (DOMAIN store) \cup {d.prNumber} |->
        IF k = d.prNumber THEN d ELSE store[k]]

\* PRManager.getDecision
getDecision(store, n) == IF n \in DOMAIN store THEN Some(store[n]) ELSE None

\* an executeDecision whose 'close' merges
executeDecisionMergesOnClose(d, by) ==
    IF d.action \in {"merge", "close"} THEN <<MergeCall(d.prNumber, by)>>
    ELSE <<>>

\* PRManager.executeDecision: the gateway calls it makes
executeDecision(d, by) ==
    IF d.action = "merge" THEN <<MergeCall(d.prNumber, by)>>
    ELSE IF d.action = "close" THEN <<CloseCall(d.prNumber, d.reason, by)>>
    ELSE <<>>

\* PRManager.executeDecision: what it returns, given what the gateway call
\* it made (if any) answered
executeDecisionReturns(d, answer) ==
    IF d.action = "merge" THEN answer
    ELSE IF d.action = "close" THEN answer
    ELSE IF d.action \in {"wait", "review"} THEN TRUE
    ELSE FALSE

\* the message of the error processPR throws: `PR #${prNumber} not found`
NotFound(n) == <<"PR #", n, " not found">>

\* a processPR that decides and records before it looks at what getPR said
processPRRecordsUnresolved(store, n, now) ==
    LET d == Decide(n, getCIStatus(n), now)
    IN [threw |-> getPR(n) = None, store |-> recordDecision(store, d),
        error |-> IF getPR(n) = None THEN Some(NotFound(n)) ELSE None,
        decision |-> IF getPR(n) = None THEN None ELSE Some(d),
        queries |-> <<GetPRQuery(n), GetCIStatusQuery(n)>>]

\* PRManager.processPR: not found, or decide from the CI status and record;
\* queries are the gateway reads it has made by then
processPR(store, n, now) ==
    IF getPR(n) = None
    THEN [threw |-> TRUE, store |-> store, error |-> Some(NotFound(n)),
          decision |-> None, queries |-> <<GetPRQuery(n)>>]
    ELSE LET d == Decide(n, getCIStatus(n), now)
         IN [threw |-> FALSE, store |-> recordDecision(store, d),
             error |-> None, decision |-> Some(d),
             queries |-> <<GetPRQuery(n), GetCIStatusQuery(n)>>]

\* the decision autoMergeReady synthesizes for a ready PR
AutoMergeDecision(n, now) ==
    [prNumber |-> n, action |-> "merge",
     reason |-> <<"Auto-merge: all required checks passed">>,
     timestamp |-> now, waitConditions |-> None]

\* a test that forgets the PR's own autoMergeEnabled flag
AutoMergeQualifiesChecksOnly(n) == allChecksPassed(n)

\* the test autoMergeReady applies to each listed PR
AutoMergeQualifies(n) ==
    gateway.pr[n].autoMergeEnabled /\ allChecksPassed(n)

RECURSIVE autoMergeReady(_, _, _)
\* PRManager.autoMergeReady over the listing prs: the decisions it returns
\* and the gateway calls it has made by then
autoMergeReady(prs, now, by) ==
    IF prs = <<>> THEN [decisions |-> <<>>, calls |-> <<>>, queries |-> <<>>]
    ELSE LET rest == autoMergeReady(Tail(prs), now, by)
             n == Head(prs)
             asked == IF gateway.pr[n].autoMergeEnabled
                      THEN <<AllChecksPassedQuery(n)>> ELSE <<>>
         IN IF AutoMergeQualifies(n)
            THEN LET d == AutoMergeDecision(n, now)
                 IN [decisions |-> <<d>> \o rest.decisions,
                     calls |-> executeDecision(d, by) \o rest.calls,
                     queries |-> asked \o rest.queries]
            ELSE [rest EXCEPT !.queries = asked \o @]

----------------------------------------------------------------------------
(* MessageBus: the handler registry is a Map, kept here as its entries in
   insertion order.  A handler installed by Coordinator.initialize forwards
   to one agent's handleMessage. *)

ForwardHandler(a) == [kind |-> "forward", agent |-> a]

\* an async function a client of the bus subscribes: (message) => Promise
Callback(name) == [kind |-> "callback", agent |-> name]
Handlers == {Callback("h1"), Callback("h2")}
Senders == AgentIds \cup {"coordinator"}
Targets == AgentIds \cup {"broadcast"}

HasKey(h, id) == \E i \in DOMAIN h : h[i].agentId = id

HandlersOf(h, id) ==
    IF HasKey(h, id)
    THEN h[CHOOSE i \in DOMAIN h : h[i].agentId = id].handlers
    ELSE <<>>

\* a subscribe that registers a handler at most once under an id
subscribeOnce(h, id, handler) ==
    IF HasKey(h, id)
    THEN [i \in DOMAIN h |->
            IF h[i].agentId = id /\ \A j \in DOMAIN h[i].handlers :
                                        h[i].handlers[j] # handler
            THEN [h[i] EXCEPT !.handlers = Append(@, handler)]
            ELSE h[i]]
    ELSE Append(h, [agentId |-> id, handlers |-> <<handler>>])

\* MessageBus.subscribe
subscribe(h, id, handler) ==
    IF HasKey(h, id)
    THEN [i \in DOMAIN h |->
            IF h[i].agentId = id
            THEN [h[i] EXCEPT !.handlers = Append(@, handler)]
            ELSE h[i]]
    ELSE Append(h, [agentId |-> id, handlers |-> <<handler>>])

RECURSIVE RemoveFirst(_, _)
\* handlers.indexOf(handler), then splice(index, 1) unless it is -1
RemoveFirst(handlers, handler) ==
    IF handlers = <<>> THEN <<>>
    ELSE IF Head(handlers) = handler THEN Tail(handlers)
    ELSE <<Head(handlers)>> \o RemoveFirst(Tail(handlers), handler)

\* an unsubscribe that drops every registration of the handler under the id
unsubscribeAll(h, id, handler) ==
    [i \in DOMAIN h |->
        IF h[i].agentId = id
        THEN [h[i] EXCEPT !.handlers = SelectSeq(@, LAMBDA x : x # handler)]
        ELSE h[i]]

\* MessageBus.unsubscribe: an unknown id gets no Map entry
unsubscribe(h, id, handler) ==
    [i \in DOMAIN h |->
        IF h[i].agentId = id
        THEN [h[i] EXCEPT !.handlers = RemoveFirst(@, handler)]
        ELSE h[i]]

RECURSIVE BroadcastTargetsAll(_, _)
\* a broadcast that does not spare the sender
BroadcastTargetsAll(h, from) ==
    IF h = <<>> THEN <<>>
    ELSE Head(h).handlers \o BroadcastTargetsAll(Tail(h), from)

RECURSIVE BroadcastTargets(_, _)
\* MessageBus.deliverMessage, the broadcast branch: every handler of every
\* id other than the sender, in Map order
BroadcastTargets(h, from) ==
    IF h = <<>> THEN <<>>
    ELSE (IF Head(h).agentId # from THEN Head(h).handlers ELSE <<>>)
         \o BroadcastTargets(Tail(h), from)

\* a delivery that hands a message for one id to that id and every later one
deliverMessageFrom(h, from, to) ==
    IF to = "broadcast" THEN BroadcastTargets(h, from)
    ELSE IF HasKey(h, to)
         THEN BroadcastTargets(
                 SubSeq(h, CHOOSE i \in DOMAIN h : h[i].agentId = to, Len(h)),
                 "")
         ELSE <<>>

\* MessageBus.deliverMessage: the handlers a message is handed to
deliverMessage(h, from, to) ==
    IF to = "broadcast" THEN BroadcastTargets(h, from) ELSE HandlersOf(h, to)

\* no publish yet
NoDelivery ==
    [from |-> "", to |-> "", type |-> "", payload |-> [event |-> ""],
     handlers |-> <<>>, settled |-> "none"]

\* targetHandlers.map((handler) => handler(message)): every target handler
\* has been called and its promise is not settled yet
Invoke(targets) ==
    [i \in DOMAIN targets |-> [handler |-> targets[i], status |-> "running"]]

\* MessageBus.publish up to its await: the message is handed to its target
\* handlers, whose promises Promise.all then awaits
publish(h, message) ==
    [from |-> message.from, to |-> message.to, type |-> message.type,
     payload |-> message.payload,
     handlers |-> Invoke(deliverMessage(h, message.from, message.to)),
     settled |-> "pending"]

\* how many registrations the bus holds
Registrations(h) ==
    IF h = <<>> THEN 0
    ELSE Len(BroadcastTargets(h, ""))

\* no publish is awaited and no handler of the latest one is still running
Quiet ==
    /\ delivery.settled # "pending"
    /\ \A i \in DOMAIN delivery.handlers :
          delivery.handlers[i].status # "running"

\* how the Promise.all over the invoked handlers can settle
DeliveryOutcomes(targets) ==
    IF targets = <<>> THEN {"resolved"} ELSE {"resolved", "rejected"}

\* a subscription loop that stops after the first agent
SubscribeFirst(h, ids) ==
    IF ids = <<>> THEN h
    ELSE subscribe(h, Head(ids), ForwardHandler(Head(ids)))

RECURSIVE SubscribeAll(_, _)
\* the subscription loop of Coordinator.initialize
SubscribeAll(h, ids) ==
    IF ids = <<>> THEN h
    ELSE SubscribeAll(subscribe(h, Head(ids), ForwardHandler(Head(ids))),
                      Tail(ids))

----------------------------------------------------------------------------
(* BaseAgent: the write domain.  A path and a glob pattern are strings, kept
   here as sequences of characters.  Patterns are written with letters,
   digits, '.', '/', '-', '_', '*' and '?', so the regular expression
   matchPath builds consists of characters, '.', '[^/]', each possibly
   followed by '*'. *)

\* the character U+00A7 of the placeholder matchPath uses for '**'
Sect == "sect"

\* the line terminators of ECMAScript: U+000A, U+000D, U+2028, U+2029
LF == "LF"
LineTerminators == {LF, "CR", "LS", "PS"}

RECURSIVE ReplaceAll(_, _, _)
\* String.prototype.replace(/from/g, to) for a literal `from`
ReplaceAll(str, from, to) ==
    IF Len(str) < Len(from) \/ str = <<>> THEN str
    ELSE IF SubSeq(str, 1, Len(from)) = from
         THEN to \o ReplaceAll(SubSeq(str, Len(from) + 1, Len(str)), from, to)
         ELSE <<Head(str)>> \o ReplaceAll(Tail(str), from, to)

\* matchPath: the four replacements that turn the glob into a regex source
GlobToRegex(pattern) ==
    ReplaceAll(
        ReplaceAll(
            ReplaceAll(
                ReplaceAll(pattern, <<"*", "*">>, <<Sect, Sect>>),
                <<"*">>, <<"[", "^", "/", "]", "*">>),
            <<Sect, Sect>>, <<".", "*">>),
        <<"?">>, <<".">>)

RECURSIVE RegexAtoms(_)
\* new RegExp(source): the source read as atoms, each with or without '*'
RegexAtoms(src) ==
    IF src = <<>> THEN <<>>
    ELSE LET class == Len(src) >= 4 /\ SubSeq(src, 1, 4) = <<"[", "^", "/", "]">>
             width == IF class THEN 4 ELSE 1
             kind == IF class THEN "notSlash"
                     ELSE IF Head(src) = "." THEN "any" ELSE "char"
             star == Len(src) > width /\ src[width + 1] = "*"
             rest == SubSeq(src, width + (IF star THEN 2 ELSE 1), Len(src))
         IN <<[kind |-> kind, char |-> Head(src), star |-> star]>>
            \o RegexAtoms(rest)

\* whether one regex atom accepts the character c; without the s flag '.'
\* accepts every character but a line terminator
Accepts(atom, c) ==
    IF atom.kind = "notSlash" THEN c # "/"
    ELSE IF atom.kind = "any" THEN c \notin LineTerminators
    ELSE c = atom.char

RECURSIVE RegexTest(_, _)
\* regex.test(path) for the regex ^atoms$
RegexTest(atoms, path) ==
    IF atoms = <<>> THEN path = <<>>
    ELSE IF Head(atoms).star
         THEN \/ RegexTest(Tail(atoms), path)
              \/ /\ path # <<>>
                 /\ Accepts(Head(atoms), Head(path))
                 /\ RegexTest(atoms, Tail(path))
         ELSE /\ path # <<>>
              /\ Accepts(Head(atoms), Head(path))
              /\ RegexTest(Tail(atoms), Tail(path))

\* BaseAgent.matchPath
matchPath(path, pattern) == RegexTest(RegexAtoms(GlobToRegex(pattern)), path)

\* config.domain.writePaths of the registered agents: '.t1/**' and '.t2/**'
writePaths(a) ==
    IF a = "a1" THEN << <<".", "t", "1", "/", "*", "*">> >>
    ELSE << <<".", "t", "2", "/", "*", "*">> >>

\* config.domain of the registered agents: no readPaths
Domain(a) == [writePaths |-> writePaths(a), readPaths |-> None]

\* BaseAgent.canWrite
canWrite(domain, path) ==
    \E i \in DOMAIN domain.writePaths : matchPath(path, domain.writePaths[i])

\* a canRead for which an empty readPaths allows nothing
canReadListed(domain, path) ==
    IF domain.readPaths = None THEN TRUE
    ELSE \E i \in DOMAIN domain.readPaths[1] :
            matchPath(path, domain.readPaths[1][i])

\* BaseAgent.canRead: !readPaths || readPaths.length === 0 allows everything
canRead(domain, path) ==
    IF domain.readPaths = None \/ Len(domain.readPaths[1]) = 0 THEN TRUE
    ELSE \E i \in DOMAIN domain.readPaths[1] :
            matchPath(path, domain.readPaths[1][i])

\* patterns and paths of the access checks: 'a/*', '**', 'b?' and
\* 'a/b', 'a', 'bc', 'a/b/c', ''
AccessPatterns ==
    {<<"a", "/", "*">>, <<"*", "*">>, <<"b", "?">>}
AccessPaths ==
    {<<"a", "/", "b">>, <<"a">>, <<"b", "c">>, <<"a", "/", "b", "/", "c">>,
     <<>>}
PatternLists ==
    UNION {[1..n -> AccessPatterns] : n \in 0..MaxPatterns}
AgentDomains ==
    [writePaths : PatternLists,
     readPaths : {None} \cup {Some(l) : l \in PatternLists}]

\* every string of at most n characters of the alphabet
Strings(alphabet, n) == UNION {[1..k -> alphabet] : k \in 0..n}

\* patterns of letters, separators and wildcards, and the patterns
\* 'src/*.ts', 'src/**', 'file?.md' of the glob tests
GlobPatterns ==
    Strings({"a", "/", "*", "?"}, MaxGlobLen)
    \cup {<<"s", "r", "c", "/", "*", ".", "t", "s">>,
          <<"s", "r", "c", "/", "*", "*">>,
          <<"f", "i", "l", "e", "?", ".", "m", "d">>}

\* paths of letters, separators and line feeds, and the paths
\* 'src/index.ts', 'src/deep/index.ts', 'file1.md', 'file12.md' of the tests
GlobPaths ==
    Strings({"a", "/", LF}, MaxGlobLen)
    \cup {<<"s", "r", "c", "/", "i", "n", "d", "e", "x", ".", "t", "s">>,
          <<"s", "r", "c", "/", "d", "e", "e", "p", "/",
            "i", "n", "d", "e", "x", ".", "t", "s">>,
          <<"f", "i", "l", "e", "1", ".", "m", "d">>,
          <<"f", "i", "l", "e", "1", "2", ".", "m", "d">>}

\* patterns without a wildcard, written with the letter 'a' and the '.' of a
\* file extension, and the pattern 'file.md'; paths of 'a', 'X' and '.',
\* and the paths 'file.md', 'fileXmd'
LiteralPatterns ==
    Strings({"a", "."}, MaxGlobLen)
    \cup {<<"f", "i", "l", "e", ".", "m", "d">>}
LiteralPaths ==
    Strings({"a", "X", "."}, MaxGlobLen)
    \cup {<<"f", "i", "l", "e", ".", "m", "d">>,
          <<"f", "i", "l", "e", "X", "m", "d">>}

\* no direct call yet
NoCall == [op |-> "none"]

\* agent.canWrite(path) for an agent of the given domain
CanWrite(domain, path) ==
    /\ lastCall' = [op |-> "canWrite", domain |-> domain, path |-> path,
                    value |-> canWrite(domain, path)]
    /\ UNCHANGED <<state, runHistory, registry, factories, agents, regLast,
                   messageHandlers, decisions, config, gateway, gatewayCalls,
                   calls, clock, returned, mgrLast, recorded, delivery>>

\* agent.canRead(path) for an agent of the given domain
CanRead(domain, path) ==
    /\ lastCall' = [op |-> "canRead", domain |-> domain, path |-> path,
                    value |-> canRead(domain, path)]
    /\ UNCHANGED <<state, runHistory, registry, factories, agents, regLast,
                   messageHandlers, decisions, config, gateway, gatewayCalls,
                   calls, clock, returned, mgrLast, recorded, delivery>>

\* the files an execute may report as changed: nothing, 'm.md',
\* '.t1/o.md' or '.t2/d/o.md'
ChangedFiles ==
    {<<>>,
     << <<"m", ".", "m", "d">> >>,
     << <<".", "t", "1", "/", "o", ".", "m", "d">> >>,
     << <<".", "t", "2", "/", "d", "/", "o", ".", "m", "d">> >>}

----------------------------------------------------------------------------
(* MessageBus: messages and their serialization.  A JavaScript value is a
   record tagged with its kind, an object a function from its own keys; a
   JSON text is kept as the tree it spells, tagged with `text`. *)

Undefined == [kind |-> "undefined"]
Null == [kind |-> "null"]
NaN == [kind |-> "NaN"]
InvalidDate == [kind |-> "invalidDate"]
Bool(b) == [kind |-> "boolean", v |-> b]
Num(n) == [kind |-> "number", v |-> n]
Str(s) == [kind |-> "string", v |-> s]
DateOf(ms) == [kind |-> "date", ms |-> ms]
Arr(items) == [items |-> items, kind |-> "array"]
Obj(props) == [kind |-> "object", props |-> props]

\* o[key]: undefined for a key the object does not have
Get(o, key) == IF key \in DOMAIN o.props THEN o.props[key] ELSE Undefined

\* the instants (milliseconds since the epoch) a clock reading can be
Times == {0, 1}

\* Date.prototype.toISOString
toISOString(ms) ==
    IF ms = 0 THEN "1970-01-01T00:00:00.000Z" ELSE "1970-01-01T00:00:00.001Z"

\* new Date(value) for a value read from JSON
NewDate(value) ==
    IF value.kind = "string" /\ \E ms \in Times : toISOString(ms) = value.v
    THEN DateOf(CHOOSE ms \in Times : toISOString(ms) = value.v)
    ELSE IF value.kind = "number" THEN DateOf(value.v)
    ELSE IF value.kind = "null" THEN DateOf(0)
    ELSE InvalidDate

\* what JSON.stringify leaves out of an object
Omitted == [text |-> "omitted"]

RECURSIVE JSONStringify(_)
\* JSON.stringify: undefined is left out of an object and null in an array,
\* NaN is null, a Date is the string its toJSON returns
JSONStringify(value) ==
    CASE value.kind = "undefined" -> Omitted
      [] value.kind = "null" -> [text |-> "null"]
      [] value.kind = "NaN" -> [text |-> "null"]
      [] value.kind = "invalidDate" -> [text |-> "null"]
      [] value.kind = "boolean" -> [text |-> "boolean", v |-> value.v]
      [] value.kind = "number" -> [text |-> "number", v |-> value.v]
      [] value.kind = "string" -> [text |-> "string", v |-> value.v]
      [] value.kind = "date" ->
            [text |-> "string", v |-> toISOString(value.ms)]
      [] value.kind = "array" ->
            [items |-> [i \in DOMAIN value.items |->
                          IF value.items[i].kind = "undefined"
                          THEN [text |-> "null"]
                          ELSE JSONStringify(value.items[i])],
             text |-> "array"]
      [] value.kind = "object" ->
            [props |-> [k \in {key \in DOMAIN value.props :
                                  value.props[key].kind # "undefined"} |->
                          JSONStringify(value.props[k])],
             text |-> "object"]

RECURSIVE JSONParse(_)
\* JSON.parse
JSONParse(json) ==
    CASE json.text = "null" -> Null
      [] json.text = "boolean" -> Bool(json.v)
      [] json.text = "number" -> Num(json.v)
      [] json.text = "string" -> Str(json.v)
      [] json.text = "array" ->
            Arr([i \in DOMAIN json.items |-> JSONParse(json.items[i])])
      [] json.text = "object" ->
            Obj([k \in DOMAIN json.props |-> JSONParse(json.props[k])])

\* MessageBus.createMessage, given what randomUUID() and new Date() return
createMessage(id, now, from, to, type, payload, relatedFiles) ==
    Obj([k \in {"id", "from", "to", "type", "payload", "timestamp",
                "relatedFiles"} |->
           CASE k = "id" -> Str(id)
             [] k = "from" -> Str(from)
             [] k = "to" -> Str(to)
             [] k = "type" -> Str(type)
             [] k = "payload" -> payload
             [] k = "timestamp" -> DateOf(now)
             [] k = "relatedFiles" -> relatedFiles])

\* MessageBus.serializeMessage
serializeMessage(message) == JSONStringify(message)

\* MessageBus.parseMessage: {...data, timestamp: new Date(data.timestamp)}
parseMessage(json) ==
    LET data == JSONParse(json)
    IN Obj([k \in DOMAIN data.props \cup {"timestamp"} |->
              IF k = "timestamp" THEN NewDate(Get(data, "timestamp"))
              ELSE data.props[k]])

\* AgentMessage['type']
MessageTypes == {"signal", "decision", "request", "status"}

\* values a payload (Record<string, unknown>) can hold under a key
PayloadValues ==
    {Bool(TRUE), Str("x"), Num(1), Null, Arr(<<Str("f")>>),
     Obj([signal |-> Str("task_completed")]), Undefined, NaN, DateOf(0)}

\* payloads: {} and {test: value}
Payloads ==
    {Obj(<<>>)} \cup {Obj([test |-> value]) : value \in PayloadValues}

\* relatedFiles?: string[]
RelatedFiles == {Undefined, Arr(<<>>), Arr(<<Str("a.md"), Str("b.md")>>)}

\* bus.parseMessage(bus.serializeMessage(message)) for a message built by
\* bus.createMessage
RoundTrip(now, from, to, type, payload, relatedFiles) ==
    LET message == createMessage("uuid-1", now, from, to, type, payload,
                                 relatedFiles)
    IN /\ lastCall' = [op |-> "parseMessage", message |-> message,
                       json |-> serializeMessage(message),
                       value |-> parseMessage(serializeMessage(message))]
       /\ UNCHANGED <<state, runHistory, registry, factories, agents,
                      regLast, messageHandlers, decisions, config, gateway,
                      gatewayCalls, calls, clock, returned, mgrLast,
                      recorded, delivery>>

----------------------------------------------------------------------------
(* Configuration (config/loader.ts).  An agent entry of a SystemConfig is
   kept with its id, its persona (name and role, or none), its domain and
   its prompt template; messages are kept as their parts. *)

ConfiguredAgents ==
    [id : AgentIds,
     persona : {None, Some([name |-> "n", role |-> "r"])},
     domain : [writePaths : PatternLists, readPaths : {None}],
     promptTemplate : {None}]

SystemConfigs ==
    [owner : {"", "o"}, repo : {"", "r"},
     agents : UNION {[1..n -> ConfiguredAgents] : n \in 0..MaxConfigAgents}]

\* validateAgentConfig
validateAgentConfig(cfg) ==
    LET errors ==
           (IF cfg.id = "" THEN <<"Missing required field: id">> ELSE <<>>)
           \o (IF cfg.persona = None \/ cfg.persona[1].name = ""
               THEN <<"Missing required field: persona.name">> ELSE <<>>)
           \o (IF cfg.persona = None \/ cfg.persona[1].role = ""
               THEN <<"Missing required field: persona.role">> ELSE <<>>)
           \o (IF Len(cfg.domain.writePaths) = 0
               THEN <<"Agent must have at least one write path">> ELSE <<>>)
        warnings ==
           IF cfg.promptTemplate = None
           THEN <<"No custom prompt template defined">> ELSE <<>>
    IN [valid |-> Len(errors) = 0, errors |-> errors, warnings |-> warnings]

\* findDomainConflicts: pathOwners maps each write path, in the order the
\* paths are first met, to the ids of the agents that list it; a path with
\* more than one owner is a conflict
findDomainConflicts(ags) ==
    LET RECURSIVE Listed(_)
        Listed(rest) ==
            IF rest = <<>> THEN <<>>
            ELSE [i \in DOMAIN Head(rest).domain.writePaths |->
                     [path |-> Head(rest).domain.writePaths[i],
                      owner |-> Head(rest).id]]
                 \o Listed(Tail(rest))
        RECURSIVE Keys(_, _)
        Keys(pairs, seen) ==
            IF pairs = <<>> THEN <<>>
            ELSE IF Head(pairs).path \in seen THEN Keys(Tail(pairs), seen)
            ELSE <<Head(pairs).path>>
                 \o Keys(Tail(pairs), seen \cup {Head(pairs).path})
        owners(path) ==
            LET of == SelectSeq(Listed(ags), LAMBDA q : q.path = path)
            IN [i \in DOMAIN of |-> of[i].owner]
        conflicting ==
            SelectSeq(Keys(Listed(ags), {}), LAMBDA path : Len(owners(path)) > 1)
    IN [i \in DOMAIN conflicting |->
          <<"Path ", conflicting[i], " is owned by multiple agents: ",
            owners(conflicting[i])>>]

\* validateConfig
validateConfig(cfg) ==
    LET perAgent(i) ==
           LET agent == cfg.agents[i]
               v == validateAgentConfig(agent)
           IN [errors |->
                  (IF \E j \in 1..(i - 1) : cfg.agents[j].id = agent.id
                   THEN << <<"Duplicate agent ID: ", agent.id>> >> ELSE <<>>)
                  \o [k \in DOMAIN v.errors |->
                         <<"Agent ", agent.id, ": ", v.errors[k]>>],
               warnings |->
                  [k \in DOMAIN v.warnings |->
                     <<"Agent ", agent.id, ": ", v.warnings[k]>>]]
        RECURSIVE Collect(_, _)
        Collect(i, field) ==
            IF i > Len(cfg.agents) THEN <<>>
            ELSE perAgent(i)[field] \o Collect(i + 1, field)
        errors ==
           (IF cfg.owner = "" THEN << <<"Missing required field: owner">> >>
            ELSE <<>>)
           \o (IF cfg.repo = "" THEN << <<"Missing required field: repo">> >>
               ELSE <<>>)
           \o Collect(1, "errors")
           \o findDomainConflicts(cfg.agents)
    IN [valid |-> Len(errors) = 0, errors |-> errors,
        warnings |-> Collect(1, "warnings")]

\* validateConfig(cfg), called by a client
ValidateConfig(cfg) ==
    /\ lastCall' = [op |-> "validateConfig", config |-> cfg,
                    value |-> validateConfig(cfg)]
    /\ UNCHANGED <<state, runHistory, registry, factories, agents, regLast,
                   messageHandlers, decisions, config, gateway, gatewayCalls,
                   calls, clock, returned, mgrLast, recorded, delivery>>

----------------------------------------------------------------------------
(* AgentRegistry *)

AgentTypes == {"mock", "other"}
AgentConfigs == [id : AgentIds]

\* what a factory of the given type returns: (config) => new Agent(config),
\* a new object each time (born tells the objects apart), whose id is
\* config.id (BaseAgent.constructor)
NewAgent(type, cfg, born) == [id |-> cfg.id, type |-> type, born |-> born]

\* the agents registered before the coordinator is used
Registered(ids) == [id \in Range(ids) |-> NewAgent("mock", [id |-> id], 0)]

\* AgentRegistry.register
register(f, type) == f \cup {type}

UnknownType(type) == <<"Unknown agent type: ", type>>

\* a createAgent that keeps the agent an id already has
createAgentKeepsFirst(f, reg, ags, type, cfg, born) ==
    IF type \notin f
    THEN [threw |-> TRUE, error |-> Some(UnknownType(type)), value |-> None,
          registry |-> reg, agents |-> ags]
    ELSE IF cfg.id \in Range(reg)
    THEN [threw |-> FALSE, error |-> None,
          value |-> Some(NewAgent(type, cfg, born)),
          registry |-> reg, agents |-> ags]
    ELSE [threw |-> FALSE, error |-> None,
          value |-> Some(NewAgent(type, cfg, born)),
          registry |-> Append(reg, cfg.id),
          agents |-> [id \in Range(reg) \cup {cfg.id} |->
                        IF id = cfg.id THEN NewAgent(type, cfg, born)
                        ELSE ags[id]]]

\* AgentRegistry.createAgent: Map.set keeps the place of a key it holds and
\* appends a new key
createAgent(f, reg, ags, type, cfg, born) ==
    IF type \notin f
    THEN [threw |-> TRUE, error |-> Some(UnknownType(type)), value |-> None,
          registry |-> reg, agents |-> ags]
    ELSE [threw |-> FALSE, error |-> None,
          value |-> Some(NewAgent(type, cfg, born)),
          registry |-> IF cfg.id \in Range(reg) THEN reg
                       ELSE Append(reg, cfg.id),
          agents |-> [id \in Range(reg) \cup {cfg.id} |->
                        IF id = cfg.id THEN NewAgent(type, cfg, born)
                        ELSE ags[id]]]

\* AgentRegistry.removeAgent: Map.delete
removeAgent(reg, ags, id) ==
    [value |-> id \in Range(reg),
     registry |-> SelectSeq(reg, LAMBDA x : x # id),
     agents |-> [x \in Range(reg) \ {id} |-> ags[x]]]

getAgent(id) == IF id \in Range(registry) THEN Some(agents[id]) ELSE None
getAllAgents == [i \in DOMAIN registry |-> agents[registry[i]]]

\* agent.id of each agent of a list
IdsOf(list) == [i \in DOMAIN list |-> list[i].id]

----------------------------------------------------------------------------
(* Coordinator *)

NewResult(now) ==
    [status |-> "success", agentResults |-> <<>>, prDecisions |-> <<>>,
     timestamp |-> now, errors |-> <<>>]

DefaultOptions == [agents |-> None, skipPRProcessing |-> FALSE, dryRun |-> FALSE]

\* a lookup that only looks into the latest run of the history
getLastAgentResultLatestRun(history, id) ==
    IF history = <<>> THEN None
    ELSE LET results == SelectSeq(history[Len(history)].agentResults,
                                  LAMBDA r : r.agentId = id)
         IN IF results = <<>> THEN None ELSE Some(Head(results))

RECURSIVE getLastAgentResult(_, _)
\* Coordinator.getLastAgentResult: scan the history backward for the first
\* run whose agentResults.find(r => r.agentId === id) is defined
getLastAgentResult(history, id) ==
    IF history = <<>> THEN None
    ELSE LET results == SelectSeq(history[Len(history)].agentResults,
                                  LAMBDA r : r.agentId = id)
         IN IF results # <<>> THEN Some(Head(results))
            ELSE getLastAgentResult(SubSeq(history, 1, Len(history) - 1), id)

\* Coordinator.buildAgentContext: the part of the context that varies
buildAgentContext(a) == [previousRun |-> getLastAgentResult(runHistory, a)]

\* MessageBus.broadcast: the message it creates and publishes
broadcast(from, type, payload) ==
    [from |-> from, to |-> "broadcast", type |-> type, payload |-> payload]

\* a task_completed payload that leaves the changed files out
TaskCompletedWithoutFiles(a, st, files) ==
    [signal |-> "task_completed", agentId |-> a, status |-> st,
     filesChanged |-> <<>>]

\* the payload of the task_completed signal run() broadcasts
TaskCompleted(a, st, files) ==
    [signal |-> "task_completed", agentId |-> a, status |-> st,
     filesChanged |-> files]

\* the locals of a run() call; executed lists the agents whose execute the
\* call has invoked so far and contexts what it handed them, signals the
\* messages it has broadcast
IdleCall ==
    [pc |-> "idle", opts |-> DefaultOptions, agentsToRun |-> <<>>, idx |-> 1,
     targets |-> <<>>, openPRs |-> <<>>, k |-> 1, decisions |-> <<>>,
     result |-> NewResult(0), executed |-> <<>>, signals |-> <<>>,
     contexts |-> <<>>]

Awaited == \A p \in Procs : calls[p].pc = "idle"
InRunBody(p) == calls[p].pc # "idle"

\* a resolution that goes through the registry and keeps the listed agents
ResolveAgentsRegistryOrder(opts) ==
    IF opts.agents # None
    THEN SelectSeqBy(registry, Range(opts.agents[1]))
    ELSE IdsOf(getAllAgents)

\* the agents a run executes: the explicit list with unknown ids dropped,
\* or every registered agent
ResolveAgents(opts) ==
    IF opts.agents # None
    THEN LET found == SelectSeq(opts.agents[1],
                                LAMBDA id : getAgent(id) # None)
         IN [i \in DOMAIN found |-> getAgent(found[i])[1].id]
    ELSE IdsOf(getAllAgents)

AgentError(id, message) == [source |-> "Agent", id |-> id, message |-> message]
CoordinatorError(message) ==
    [source |-> "Coordinator", id |-> "", message |-> message]

\* a status that looks at the errors only
OverallStatusErrorsOnly(r) ==
    IF Len(r.errors) > 0 THEN "failure" ELSE r.status

\* the overall status of a run whose body completed
OverallStatus(r) ==
    IF Len(r.errors) > 0
    THEN (IF Len(r.agentResults) > 0 THEN "partial" ELSE "failure")
    ELSE r.status

\* what run() hands back, with the call it answers: its options, the agents
\* it resolved and those it executed, whether the outer catch ran, and the
\* decision store and the coordinator state it leaves
Returned(c, r, escaped) ==
    [result |-> r, opts |-> c.opts, resolved |-> c.agentsToRun,
     executed |-> c.executed, contexts |-> c.contexts,
     signals |-> c.signals, escaped |-> escaped,
     store |-> decisions', state |-> state']

\* run(): the body completed; status, state, history push, return
Complete(p, c) ==
    LET r == [c.result EXCEPT !.status = OverallStatus(c.result)]
    IN /\ state' = "idle"
       /\ runHistory' = Append(runHistory, r)
       /\ returned' = Append(returned, Returned(c, r, FALSE))
       /\ calls' = [calls EXCEPT ![p] = IdleCall]

\* an outer catch that returns the failed result without keeping it
FailUnrecorded(p, c, message) ==
    LET r == [c.result EXCEPT !.errors = Append(@, CoordinatorError(message)),
                              !.status = "failure"]
    IN /\ state' = "error"
       /\ runHistory' = runHistory
       /\ returned' = Append(returned, Returned(c, r, TRUE))
       /\ calls' = [calls EXCEPT ![p] = IdleCall]

\* an outer catch that sets the state and throws again
FailRethrows(p, c, message) ==
    /\ state' = "error"
    /\ UNCHANGED <<runHistory, returned>>
    /\ calls' = [calls EXCEPT ![p] = IdleCall]

\* run(): the outer catch; status, state, history push, return
Fail(p, c, message) ==
    LET r == [c.result EXCEPT !.errors = Append(@, CoordinatorError(message)),
                              !.status = "failure"]
    IN /\ state' = "error"
       /\ runHistory' = Append(runHistory, r)
       /\ returned' = Append(returned, Returned(c, r, TRUE))
       /\ calls' = [calls EXCEPT ![p] = IdleCall]

\* a suspension that never writes the coordinator state
SuspendStateUntouched(p, c, pc, st) ==
    /\ calls' = [calls EXCEPT ![p] = [c EXCEPT !.pc = pc]]
    /\ state' = state
    /\ UNCHANGED <<runHistory, returned>>

\* run(): suspend call p at the await named pc, leaving the state at st
Suspend(p, c, pc, st) ==
    /\ calls' = [calls EXCEPT ![p] = [c EXCEPT !.pc = pc]]
    /\ state' = st
    /\ UNCHANGED <<runHistory, returned>>

\* run(): after processPRs returned its decisions
AfterPRs(p, c) ==
    Complete(p, [c EXCEPT !.result.prDecisions = c.decisions])

\* run(): the agent loop from index c.idx on, then the PR step
Proceed(p, c, st) ==
    IF c.idx <= Len(c.agentsToRun)
    THEN Suspend(p, [c EXCEPT
                       !.executed = Append(@, c.agentsToRun[c.idx]),
                       !.contexts =
                          Append(@, buildAgentContext(c.agentsToRun[c.idx]))],
                 "execute", st)
    ELSE IF ~c.opts.skipPRProcessing THEN Suspend(p, c, "listOpenPRs", st)
    ELSE Complete(p, c)

\* processPRs: the PR loop from index c.k on, then the auto-merge check
ProceedPRs(p, c) ==
    IF c.k <= Len(c.openPRs) THEN Suspend(p, c, "processPR", state)
    ELSE IF ~c.opts.dryRun /\ config.autoMerge.enabled
         THEN Suspend(p, c, "autoMergeReady", state)
    ELSE AfterPRs(p, c)

\* an execution step that forgets the dry-run flag
ExecuteAlways(dryRun, d, by) ==
    IF d.action = "merge" THEN executeDecision(d, by) ELSE <<>>

\* processPRs: "execute decision unless dry run"
ExecuteUnlessDryRun(dryRun, d, by) ==
    IF ~dryRun /\ d.action = "merge" THEN executeDecision(d, by) ELSE <<>>

\* Coordinator.getRunHistory / getLastRun
getRunHistory == runHistory
getLastRun ==
    IF Len(runHistory) = 0 THEN None ELSE Some(runHistory[Len(runHistory)])

\* the payload of the status broadcast of Coordinator.initialize (its
\* timestamp is not kept)
CoordinatorInitialized == [event |-> "coordinator_initialized"]

\* Coordinator.initialize: the state, the subscriptions, then the status
\* broadcast up to its await; a failure of that broadcast is the caller's
Initialize ==
    /\ \A i \in DOMAIN messageHandlers :
          Len(messageHandlers[i].handlers) < MaxInits
    /\ state' = "running"
    /\ messageHandlers' = SubscribeAll(messageHandlers, IdsOf(getAllAgents))
    /\ delivery' = publish(messageHandlers',
                           broadcast("coordinator", "status",
                                     CoordinatorInitialized))
    /\ UNCHANGED <<runHistory, registry, factories, agents, regLast,
                   decisions, config, gateway, gatewayCalls, calls, clock,
                   returned, mgrLast, recorded, lastCall>>

\* Coordinator.stop: the state, then the status broadcast
Stop ==
    /\ state' = "stopped"
    /\ UNCHANGED <<runHistory, registry, factories, agents, regLast,
                   messageHandlers, decisions, config, gateway, gatewayCalls,
                   calls, clock, returned, mgrLast, recorded, delivery,
                   lastCall>>

\* Coordinator.run, from the call to its first await
RunStart(p, opts, maxRuns) ==
    /\ calls[p].pc = "idle"
    /\ clock < maxRuns
    /\ clock' = clock + 1
    /\ UNCHANGED <<registry, factories, agents, regLast, messageHandlers,
                   decisions, config, gateway, gatewayCalls, mgrLast,
                   recorded, delivery, lastCall>>
    /\ Proceed(p, [IdleCall EXCEPT !.opts = opts,
                                   !.agentsToRun = ResolveAgents(opts),
                                   !.result = NewResult(clock + 1)],
               "processing")

\* Coordinator.run: the awaited agent.execute settles, returning a result
\* whose filesChanged is one of `changed`, or throwing
AgentExecuteSettles(p, changed) ==
    LET c == calls[p]
        a == c.agentsToRun[c.idx]
    IN /\ c.pc = "execute"
       /\ UNCHANGED <<registry, factories, agents, regLast, messageHandlers,
                      decisions, config, gateway, gatewayCalls, clock,
                      mgrLast, recorded, lastCall>>
       /\ \/ \E st \in AgentResultStatuses, files \in changed :
                Suspend(p, [c EXCEPT
                              !.result.agentResults =
                                 Append(@, [agentId |-> a, status |-> st,
                                            filesChanged |-> files,
                                            timestamp |-> c.result.timestamp]),
                              !.signals =
                                 Append(@, broadcast("coordinator", "signal",
                                              TaskCompleted(a, st, files))),
                              !.targets = deliverMessage(messageHandlers,
                                             "coordinator", "broadcast")],
                        "broadcast", state)
          \/ Proceed(p, [c EXCEPT
                           !.result.errors =
                              Append(@, AgentError(a, "execute failed")),
                           !.idx = @ + 1],
                     state)

\* the same step when the handlers of the broadcast are not followed
AgentExecute(p, changed) ==
    AgentExecuteSettles(p, changed) /\ UNCHANGED delivery

\* the same step with the handlers of the broadcast followed one by one
AgentExecuteDelivers(p, changed) ==
    /\ AgentExecuteSettles(p, changed)
    /\ delivery' = IF calls'[p].pc = "broadcast"
                   THEN publish(messageHandlers,
                                calls'[p].signals[Len(calls'[p].signals)])
                   ELSE delivery

\* Coordinator.run: the awaited task_completed broadcast settled as o
AgentBroadcastSettles(p, o) ==
    LET c == calls[p]
        a == c.agentsToRun[c.idx]
    IN /\ c.pc = "broadcast"
       /\ UNCHANGED <<registry, factories, agents, regLast, messageHandlers,
                      decisions, config, gateway, gatewayCalls, clock,
                      mgrLast, recorded, lastCall>>
       /\ IF o = "resolved"
          THEN Proceed(p, [c EXCEPT !.idx = @ + 1, !.targets = <<>>], state)
          ELSE Proceed(p, [c EXCEPT
                             !.result.errors =
                                Append(@, AgentError(a, "handler failed")),
                             !.idx = @ + 1, !.targets = <<>>],
                       state)

\* the same step when the handlers of the broadcast are not followed
AgentBroadcast(p) ==
    /\ calls[p].pc = "broadcast"
    /\ \E o \in DeliveryOutcomes(calls[p].targets) :
          AgentBroadcastSettles(p, o)
    /\ UNCHANGED delivery

\* the same step with the handlers followed: Promise.all fulfils once every
\* handler promise is fulfilled and rejects once one is rejected
AgentBroadcastDelivered(p) ==
    /\ delivery.settled = "pending"
    /\ \/ /\ \A i \in DOMAIN delivery.handlers :
                delivery.handlers[i].status = "resolved"
          /\ delivery' = [delivery EXCEPT !.settled = "resolved"]
          /\ AgentBroadcastSettles(p, "resolved")
       \/ /\ \E i \in DOMAIN delivery.handlers :
                delivery.handlers[i].status = "rejected"
          /\ delivery' = [delivery EXCEPT !.settled = "rejected"]
          /\ AgentBroadcastSettles(p, "rejected")

\* Coordinator.processPRs: the awaited listOpenPRs settles
ListOpenPRs(p) ==
    LET c == calls[p]
    IN /\ c.pc = "listOpenPRs"
       /\ UNCHANGED <<registry, factories, agents, regLast, messageHandlers,
                      decisions, config, gateway, gatewayCalls, clock,
                      mgrLast, recorded, delivery, lastCall>>
       /\ ProceedPRs(p, [c EXCEPT !.openPRs = listOpenPRs, !.k = 1,
                                  !.decisions = <<>>])

\* Coordinator.processPRs: the awaited listOpenPRs rejects
ListOpenPRsFails(p) ==
    LET c == calls[p]
    IN /\ c.pc = "listOpenPRs"
       /\ UNCHANGED <<registry, factories, agents, regLast, messageHandlers,
                      decisions, config, gateway, gatewayCalls, clock,
                      mgrLast, recorded, delivery, lastCall>>
       /\ Fail(p, c, "listOpenPRs failed")

\* Coordinator.processPRs: one turn of the loop over the open PRs
ProcessPR(p) ==
    LET c == calls[p]
        n == c.openPRs[c.k]
        r == processPR(decisions, n, c.result.timestamp)
    IN /\ c.pc = "processPR"
       /\ UNCHANGED <<registry, factories, agents, regLast, messageHandlers,
                      config, gateway, clock, mgrLast, delivery, lastCall>>
       /\ decisions' = r.store
       /\ recorded' = recorded \o r.decision
       /\ IF r.threw
          THEN /\ UNCHANGED gatewayCalls
               /\ Fail(p, c, "PR not found")
          ELSE /\ gatewayCalls' = gatewayCalls \o
                     ExecuteUnlessDryRun(c.opts.dryRun, r.decision[1],
                                         c.result.timestamp)
               /\ ProceedPRs(p, [c EXCEPT
                                   !.decisions = Append(@, r.decision[1]),
                                   !.k = @ + 1])

\* Coordinator.processPRs: the awaited autoMergeReady settles
AutoMergeReady(p) ==
    LET c == calls[p]
        r == autoMergeReady(listOpenPRs, c.result.timestamp,
                            c.result.timestamp)
    IN /\ c.pc = "autoMergeReady"
       /\ UNCHANGED <<registry, factories, agents, regLast, messageHandlers,
                      decisions, config, gateway, clock, mgrLast, recorded,
                      delivery, lastCall>>
       /\ gatewayCalls' = gatewayCalls \o r.calls
       /\ AfterPRs(p, [c EXCEPT !.decisions = @ \o r.decisions])

----------------------------------------------------------------------------
(* Direct calls of the MessageBus.  `delivery` follows one message at a
   time: the next publish is made once the handlers of the latest one have
   settled. *)

\* bus.subscribe(id, handler)
Subscribe(id, handler) ==
    /\ Registrations(messageHandlers) < MaxSubscriptions
    /\ messageHandlers' = subscribe(messageHandlers, id, handler)
    /\ UNCHANGED <<state, runHistory, registry, factories, agents, regLast,
                   decisions, config, gateway, gatewayCalls, calls, clock,
                   returned, mgrLast, recorded, delivery, lastCall>>

\* bus.unsubscribe(id, handler)
Unsubscribe(id, handler) ==
    /\ messageHandlers' = unsubscribe(messageHandlers, id, handler)
    /\ UNCHANGED <<state, runHistory, registry, factories, agents, regLast,
                   decisions, config, gateway, gatewayCalls, calls, clock,
                   returned, mgrLast, recorded, delivery, lastCall>>

\* bus.publish(createMessage(from, to, ...)), up to the await of Promise.all
Publish(from, to) ==
    /\ Quiet
    /\ clock < MaxPublishes
    /\ clock' = clock + 1
    /\ delivery' = publish(messageHandlers,
                           [from |-> from, to |-> to, type |-> "signal",
                            payload |-> [event |-> "test"]])
    /\ UNCHANGED <<state, runHistory, registry, factories, agents, regLast,
                   messageHandlers, decisions, config, gateway, gatewayCalls,
                   calls, returned, mgrLast, recorded, lastCall>>

\* the promise handler i returned settles
HandlerSettles(i, outcome) ==
    /\ i \in DOMAIN delivery.handlers
    /\ delivery.handlers[i].status = "running"
    /\ delivery' = [delivery EXCEPT !.handlers[i].status = outcome]
    /\ UNCHANGED <<state, runHistory, registry, factories, agents, regLast,
                   messageHandlers, decisions, config, gateway, gatewayCalls,
                   calls, clock, returned, mgrLast, recorded, lastCall>>

\* Promise.all settles and publish returns to its caller: fulfilled once
\* every promise is fulfilled, rejected once one promise is rejected
PublishSettles ==
    /\ delivery.settled = "pending"
    /\ \/ /\ \A i \in DOMAIN delivery.handlers :
                delivery.handlers[i].status = "resolved"
          /\ delivery' = [delivery EXCEPT !.settled = "resolved"]
       \/ /\ \E i \in DOMAIN delivery.handlers :
                delivery.handlers[i].status = "rejected"
          /\ delivery' = [delivery EXCEPT !.settled = "rejected"]
    /\ UNCHANGED <<state, runHistory, registry, factories, agents, regLast,
                   messageHandlers, decisions, config, gateway, gatewayCalls,
                   calls, clock, returned, mgrLast, recorded, lastCall>>

----------------------------------------------------------------------------
(* A delivery followed call by call.  deliverMessage collects the target
   handlers into an array of its own and then calls them one after the
   other (targetHandlers.map); the part of a handler that runs before its
   first await runs inside that call and may itself subscribe or
   unsubscribe.  Other code runs only once the map is through. *)

\* the collected targets, none of them called yet
Queue(targets) ==
    [i \in DOMAIN targets |-> [handler |-> targets[i], status |-> "queued"]]

\* every collected target has been called
MapDone ==
    \A i \in DOMAIN delivery.handlers : delivery.handlers[i].status # "queued"

\* a map over the registry's own arrays: call i takes the handler found at
\* place i of the targets as the registry gives them at that moment, and
\* calls nothing when that place is gone
TargetAtLive(d, h, i) ==
    LET now == deliverMessage(h, d.from, d.to)
    IN IF i \in DOMAIN now THEN now[i] ELSE [kind |-> "none", agent |-> ""]

\* targetHandlers[i]: the handler call i of the map takes
TargetAt(d, h, i) == d.handlers[i].handler

\* bus.publish(message) up to the end of the loops that collect the targets
PublishResolves(from, to) ==
    /\ Quiet
    /\ clock < MaxPublishes
    /\ clock' = clock + 1
    /\ delivery' =
          [publish(messageHandlers,
                   [from |-> from, to |-> to, type |-> "signal",
                    payload |-> [event |-> "test"]])
             EXCEPT !.handlers = Queue(deliverMessage(messageHandlers,
                                                      from, to))]
    /\ UNCHANGED <<state, runHistory, registry, factories, agents, regLast,
                   messageHandlers, decisions, config, gateway, gatewayCalls,
                   calls, returned, mgrLast, recorded, lastCall>>

\* the map calls its next target, which before its first await subscribes
\* or unsubscribes handler x under id, or does neither
InvokeNext(op, id, x) ==
    /\ ~MapDone
    /\ LET i == CHOOSE k \in DOMAIN delivery.handlers :
                    /\ delivery.handlers[k].status = "queued"
                    /\ \A j \in 1..(k - 1) :
                          delivery.handlers[j].status # "queued"
       IN delivery' =
             [delivery EXCEPT !.handlers[i] =
                 [handler |-> TargetAt(delivery, messageHandlers, i),
                  status |-> "running"]]
    /\ op = "subscribe" => Registrations(messageHandlers) < MaxSubscriptions
    /\ messageHandlers' =
          IF op = "subscribe" THEN subscribe(messageHandlers, id, x)
          ELSE IF op = "unsubscribe" THEN unsubscribe(messageHandlers, id, x)
          ELSE messageHandlers
    /\ UNCHANGED <<state, runHistory, registry, factories, agents, regLast,
                   decisions, config, gateway, gatewayCalls, calls, clock,
                   returned, mgrLast, recorded, lastCall>>

----------------------------------------------------------------------------
(* Direct calls of the AgentRegistry.  live is the set of ids created and
   not removed since, kept beside the registry's own map. *)

NoRegistryCall ==
    [op |-> "none", type |-> "", id |-> "", threw |-> FALSE, error |-> <<>>,
     value |-> <<>>, before |-> [registry |-> <<>>, agents |-> <<>>,
                                 factories |-> {}],
     live |-> {}]

\* registry.register(type, factory)
Register(type) ==
    /\ clock < MaxRegistryCalls
    /\ clock' = clock + 1
    /\ factories' = register(factories, type)
    /\ regLast' = [op |-> "register", type |-> type, id |-> "",
                   threw |-> FALSE, error |-> None, value |-> None,
                   before |-> [registry |-> registry, agents |-> agents,
                               factories |-> factories],
                   live |-> regLast.live]
    /\ UNCHANGED <<state, runHistory, registry, agents, messageHandlers,
                   decisions, config, gateway, gatewayCalls, calls, returned,
                   mgrLast, recorded, delivery, lastCall>>

\* registry.createAgent(type, cfg)
CreateAgent(type, cfg) ==
    LET r == createAgent(factories, registry, agents, type, cfg, clock + 1)
    IN /\ clock < MaxRegistryCalls
       /\ clock' = clock + 1
       /\ registry' = r.registry
       /\ agents' = r.agents
       /\ regLast' = [op |-> "createAgent", type |-> type, id |-> cfg.id,
                      threw |-> r.threw, error |-> r.error,
                      value |-> r.value,
                      before |-> [registry |-> registry, agents |-> agents,
                                  factories |-> factories],
                      live |-> IF type \in factories
                               THEN regLast.live \cup {cfg.id}
                               ELSE regLast.live]
       /\ UNCHANGED <<state, runHistory, factories, messageHandlers,
                      decisions, config, gateway, gatewayCalls, calls,
                      returned, mgrLast, recorded, delivery, lastCall>>

\* registry.removeAgent(id)
RemoveAgent(id) ==
    LET r == removeAgent(registry, agents, id)
    IN /\ clock < MaxRegistryCalls
       /\ clock' = clock + 1
       /\ registry' = r.registry
       /\ agents' = r.agents
       /\ regLast' = [op |-> "removeAgent", type |-> "", id |-> id,
                      threw |-> FALSE, error |-> None,
                      value |-> Some(r.value),
                      before |-> [registry |-> registry, agents |-> agents,
                                  factories |-> factories],
                      live |-> regLast.live \ {id}]
       /\ UNCHANGED <<state, runHistory, factories, messageHandlers,
                      decisions, config, gateway, gatewayCalls, calls,
                      returned, mgrLast, recorded, delivery, lastCall>>

----------------------------------------------------------------------------
(* Direct calls of the PRManager (coordinator.getPRManager()) *)

NoMgrCall ==
    [op |-> "none", prNumber |-> 0, threw |-> FALSE, value |-> <<>>,
     at |-> 0, before |-> <<>>, queries |-> <<>>, error |-> <<>>,
     arg |-> <<>>, answer |-> <<>>]

\* await manager.processPR(n)
MgrProcessPR(n) ==
    LET r == processPR(decisions, n, clock + 1)
    IN /\ clock < MaxMgrCalls
       /\ clock' = clock + 1
       /\ decisions' = r.store
       /\ mgrLast' = [op |-> "processPR", prNumber |-> n, threw |-> r.threw,
                      value |-> r.decision, at |-> clock + 1,
                      before |-> decisions, queries |-> r.queries,
                      error |-> r.error, arg |-> None, answer |-> None]
       /\ recorded' = recorded \o r.decision
       /\ UNCHANGED <<state, runHistory, registry, factories, agents, regLast,
                      messageHandlers, config, gateway, gatewayCalls, calls,
                      returned, delivery, lastCall>>

\* await manager.autoMergeReady(requiredChecks)
MgrAutoMergeReady ==
    LET r == autoMergeReady(listOpenPRs, clock + 1, clock + 1)
    IN /\ clock < MaxMgrCalls
       /\ clock' = clock + 1
       /\ gatewayCalls' = gatewayCalls \o r.calls
       /\ mgrLast' = [op |-> "autoMergeReady", prNumber |-> 0, threw |-> FALSE,
                      value |-> r.decisions, at |-> clock + 1,
                      before |-> decisions, queries |-> r.queries,
                      error |-> None, arg |-> None, answer |-> None]
       /\ UNCHANGED <<state, runHistory, registry, factories, agents, regLast,
                      messageHandlers, decisions, config, gateway, calls,
                      returned, recorded, delivery, lastCall>>

\* the decisions a caller can hand to the manager at time now
CallerDecisions(now) ==
    {[prNumber |-> n, action |-> a, reason |-> <<"by hand: ", a>>,
      timestamp |-> now, waitConditions |-> None] :
        n \in PRNumbers, a \in PRActions}

\* manager.recordDecision(d)
MgrRecordDecision(d) ==
    /\ clock < MaxMgrCalls
    /\ clock' = clock + 1
    /\ decisions' = recordDecision(decisions, d)
    /\ recorded' = Append(recorded, d)
    /\ mgrLast' = [op |-> "recordDecision", prNumber |-> d.prNumber,
                   threw |-> FALSE, value |-> None, at |-> clock + 1,
                   before |-> decisions, queries |-> <<>>, error |-> None,
                   arg |-> Some(d), answer |-> None]
    /\ UNCHANGED <<state, runHistory, registry, factories, agents, regLast,
                   messageHandlers, config, gateway, gatewayCalls, calls,
                   returned, delivery, lastCall>>

\* await manager.executeDecision(d), the gateway answering `answer`
MgrExecuteDecision(d, answer) ==
    /\ clock < MaxMgrCalls
    /\ clock' = clock + 1
    /\ gatewayCalls' = gatewayCalls \o executeDecision(d, clock + 1)
    /\ mgrLast' = [op |-> "executeDecision", prNumber |-> d.prNumber,
                   threw |-> FALSE,
                   value |-> Some(executeDecisionReturns(d, answer)),
                   at |-> clock + 1, before |-> decisions, queries |-> <<>>,
                   error |-> None, arg |-> Some(d),
                   answer |-> IF executeDecision(d, clock + 1) = <<>>
                              THEN None ELSE Some(answer)]
    /\ UNCHANGED <<state, runHistory, registry, factories, agents, regLast,
                   messageHandlers, decisions, config, gateway, calls,
                   returned, recorded, delivery, lastCall>>

----------------------------------------------------------------------------
(* Specifications *)

\* gateways whose answers for an unresolved PR are not spelled out twice
Canonical(g) ==
    \A n \in PRNumbers : ~g.pr[n].resolves => g.pr[n].ciStatus = "pending"

AllGateways == {g \in Gateways : Canonical(g)}

NoPR ==
    [resolves |-> FALSE, ciStatus |-> "pending", autoMergeEnabled |-> FALSE,
     checksPassed |-> FALSE]

\* at most PR 1 open: enough for PR processing to pass, to merge and to fail
FewGateways ==
    {g \in AllGateways :
        /\ g.openPRs \in {<<>>, <<1>>}
        /\ g.pr[2] = NoPR
        /\ g.pr[1].ciStatus \in {"pending", "success"}
        /\ g.pr[1].checksPassed = g.pr[1].autoMergeEnabled
        /\ (g.openPRs = <<>> \/ ~g.pr[1].resolves) => g.pr[1] = NoPR}

\* a coordinator on a registry that holds the given agents
InitWith(registries, gateways) ==
    /\ state = "idle"
    /\ runHistory = <<>>
    /\ registry \in registries
    /\ factories = IF registry = <<>> THEN {} ELSE {"mock"}
    /\ agents = Registered(registry)
    /\ regLast = [NoRegistryCall EXCEPT !.live = Range(registry)]
    /\ messageHandlers = <<>>
    /\ decisions = <<>>
    /\ config \in [autoMerge : [enabled : BOOLEAN]]
    /\ gateway \in gateways
    /\ gatewayCalls = <<>>
    /\ calls = [p \in Procs |-> IdleCall]
    /\ clock = 0
    /\ returned = <<>>
    /\ mgrLast = NoMgrCall
    /\ recorded = <<>>
    /\ delivery = NoDelivery
    /\ lastCall = NoCall

\* run()'s steps over the agents, whoever called it
AgentSteps ==
    \/ \E p \in Procs : AgentExecute(p, {<<>>})
    \/ \E p \in Procs : AgentBroadcast(p)

\* run()'s steps over the PRs
PRSteps ==
    \/ \E p \in Procs : ListOpenPRs(p)
    \/ \E p \in Procs : ProcessPR(p)
    \/ \E p \in Procs : AutoMergeReady(p)

\* dryRun is read by PR processing only
LifecycleOptions == {o \in RunOptions : ~o.dryRun}

\* The coordinator's lifecycle: any registry, few PRs.  The caller awaits
\* each coordinator call before making the next.
Init == InitWith(Registries, FewGateways)

Next ==
    \/ Awaited /\ Initialize
    \/ Awaited /\ Stop
    \/ Awaited /\ \E opts \in LifecycleOptions : RunStart(1, opts, MaxRuns)
    \/ AgentSteps
    \/ PRSteps

Spec == Init /\ [][Next]_vars

\* PR processing by run(): every gateway, a coordinator without agents
PROptions ==
    {o \in RunOptions : o.agents = None /\ (o.skipPRProcessing => ~o.dryRun)}

InitPRs == InitWith({<<>>}, AllGateways)

NextPRs ==
    \/ Awaited /\ \E opts \in PROptions : RunStart(1, opts, MaxPRRuns)
    \/ PRSteps

SpecPRs == InitPRs /\ [][NextPRs]_vars

\* the PR manager driven directly
InitMgr == InitWith({<<>>}, AllGateways)

NextMgr ==
    \/ \E n \in PRNumbers : MgrProcessPR(n)
    \/ MgrAutoMergeReady

SpecMgr == InitMgr /\ [][NextMgr]_vars

\* one PR, no listing: what the decision store and executeDecision need
OnePRGateways ==
    {g \in AllGateways :
        /\ g.openPRs = <<>>
        /\ g.pr[2] = NoPR
        /\ ~g.pr[1].autoMergeEnabled /\ ~g.pr[1].checksPassed}

\* the decision store: decisions recorded by hand and by processPR
InitStore == InitWith({<<>>}, OnePRGateways)

NextStore ==
    \/ \E d \in CallerDecisions(clock + 1) : MgrRecordDecision(d)
    \/ \E n \in PRNumbers : MgrProcessPR(n)

SpecStore == InitStore /\ [][NextStore]_vars

\* executeDecision on any decision, over a store processPR may have filled
InitExec == InitWith({<<>>}, OnePRGateways)

NextExec ==
    \/ \E d \in CallerDecisions(clock + 1), answer \in BOOLEAN :
          MgrExecuteDecision(d, answer)
    \/ \E n \in PRNumbers : MgrProcessPR(n)

SpecExec == InitExec /\ [][NextExec]_vars

\* the selection of agents by run(): lists in any order, no PR processing
SelectOptions ==
    [agents : {None} \cup {Some(l) : l \in SelectLists},
     skipPRProcessing : {TRUE}, dryRun : {FALSE}]

InitSelect ==
    /\ InitWith(Registries, {[openPRs |-> <<>>, pr |-> [n \in PRNumbers |-> NoPR]]})
    /\ ~config.autoMerge.enabled

NextSelect ==
    \/ Awaited /\ \E opts \in SelectOptions : RunStart(1, opts, MaxRuns)
    \/ AgentSteps

SpecSelect == InitSelect /\ [][NextSelect]_vars

\* the files agents report: any of ChangedFiles, whatever the agent's domain
DomainOptions ==
    [agents : {None}, skipPRProcessing : {TRUE}, dryRun : {FALSE}]

InitDomain ==
    /\ InitWith(Registries, {[openPRs |-> <<>>, pr |-> [n \in PRNumbers |-> NoPR]]})
    /\ ~config.autoMerge.enabled

NextDomain ==
    \/ Awaited /\ \E opts \in DomainOptions : RunStart(1, opts, MaxRuns)
    \/ \E p \in Procs : AgentExecute(p, ChangedFiles)
    \/ \E p \in Procs : AgentBroadcast(p)

SpecDomain == InitDomain /\ [][NextDomain]_vars

\* run() called without waiting for the run before it: the coordinator has
\* no lock, so a second call starts while the first is suspended at an await
OverlapOptions ==
    [agents : {None}, skipPRProcessing : {TRUE}, dryRun : {FALSE}]

InitOverlap ==
    /\ InitWith(Registries, {[openPRs |-> <<>>, pr |-> [n \in PRNumbers |-> NoPR]]})
    /\ ~config.autoMerge.enabled

NextOverlap ==
    \/ \E p \in Procs, opts \in OverlapOptions : RunStart(p, opts, MaxRuns)
    \/ AgentSteps

SpecOverlap == InitOverlap /\ [][NextOverlap]_vars

\* config.autoMerge.blockingLabels as the default configuration sets it
blockingLabels == {"do-not-merge", "wip", "blocked"}

\* PRs as the gateway holds them, with the labels they carry
LabelledPRFacts ==
    [resolves : {TRUE}, ciStatus : {"pending", "success"},
     autoMergeEnabled : BOOLEAN, checksPassed : BOOLEAN,
     labels : {{}, {"wip"}, {"enhancement"}}]

LabelledGateways ==
    [openPRs : {<<1>>, <<1, 2>>}, pr : [PRNumbers -> LabelledPRFacts]]

\* auto-merge over labelled PRs, by autoMergeReady and by run()
InitLabels == InitWith({<<>>}, LabelledGateways)

NextLabels ==
    \/ Awaited /\ MgrAutoMergeReady
    \/ Awaited /\ RunStart(1, DefaultOptions, MaxMgrCalls)
    \/ PRSteps

SpecLabels == InitLabels /\ [][NextLabels]_vars

\* runs that leave an agent out or in which it fails, between runs in which
\* it succeeds: what an execute is handed as previousRun
PreviousOptions ==
    [agents : {None, Some(<<"a2">>)}, skipPRProcessing : {TRUE},
     dryRun : {FALSE}]

InitPrevious ==
    /\ InitWith({<<"a1", "a2">>},
                {[openPRs |-> <<>>, pr |-> [n \in PRNumbers |-> NoPR]]})
    /\ ~config.autoMerge.enabled

NextPrevious ==
    \/ Awaited /\ \E opts \in PreviousOptions :
                     RunStart(1, opts, MaxPreviousRuns)
    \/ AgentSteps

SpecPrevious == InitPrevious /\ [][NextPrevious]_vars

\* initialize() calls and publishes of a client that awaits each call
InitInitialize ==
    /\ InitWith(Registries,
                {[openPRs |-> <<>>, pr |-> [n \in PRNumbers |-> NoPR]]})
    /\ ~config.autoMerge.enabled

NextInitialize ==
    \/ Quiet /\ Initialize
    \/ \E from \in Senders, to \in Targets : Publish(from, to)
    \/ \E i \in 1..(2 * MaxInits), outcome \in {"resolved", "rejected"} :
          HandlerSettles(i, outcome)
    \/ PublishSettles

SpecInitialize == InitInitialize /\ [][NextInitialize]_vars

\* the agent registry on its own, from its construction
InitRegistry ==
    /\ InitWith({<<>>},
                {[openPRs |-> <<>>, pr |-> [n \in PRNumbers |-> NoPR]]})
    /\ ~config.autoMerge.enabled

NextRegistry ==
    \/ \E type \in AgentTypes : Register(type)
    \/ \E type \in AgentTypes, cfg \in AgentConfigs : CreateAgent(type, cfg)
    \/ \E id \in AgentIds : RemoveAgent(id)

SpecRegistry == InitRegistry /\ [][NextRegistry]_vars

\* canWrite and canRead calls on agents of every domain; a call changes
\* nothing a later call reads, so one call is followed at a time
InitAccess ==
    /\ InitWith({<<>>},
                {[openPRs |-> <<>>, pr |-> [n \in PRNumbers |-> NoPR]]})
    /\ ~config.autoMerge.enabled

NextAccess ==
    \/ lastCall = NoCall /\ \E domain \in AgentDomains, path \in AccessPaths :
                               CanWrite(domain, path)
    \/ lastCall = NoCall /\ \E domain \in AgentDomains, path \in AccessPaths :
                               CanRead(domain, path)

SpecAccess == InitAccess /\ [][NextAccess]_vars

\* canWrite calls on agents whose writePaths is one pattern
InitGlob ==
    /\ InitWith({<<>>},
                {[openPRs |-> <<>>, pr |-> [n \in PRNumbers |-> NoPR]]})
    /\ ~config.autoMerge.enabled

NextGlob ==
    lastCall = NoCall /\ \E pattern \in GlobPatterns, path \in GlobPaths :
                            CanWrite([writePaths |-> <<pattern>>,
                                      readPaths |-> None], path)

SpecGlob == InitGlob /\ [][NextGlob]_vars

\* messages built, serialized and parsed again, one at a time
InitMessages ==
    /\ InitWith({<<>>},
                {[openPRs |-> <<>>, pr |-> [n \in PRNumbers |-> NoPR]]})
    /\ ~config.autoMerge.enabled

NextMessages ==
    lastCall = NoCall /\ \E now \in Times, from \in Senders, to \in Targets,
                            type \in MessageTypes, payload \in Payloads,
                            relatedFiles \in RelatedFiles :
                            RoundTrip(now, from, to, type, payload,
                                      relatedFiles)

SpecMessages == InitMessages /\ [][NextMessages]_vars

\* awaited initialize() and run() calls on two agents, with the handlers of
\* every broadcast followed one by one
SequenceOptions ==
    {DefaultOptions, [DefaultOptions EXCEPT !.agents = Some(<<"a2", "a1">>)]}

InitSequence ==
    /\ InitWith({<<"a1", "a2">>},
                {[openPRs |-> <<>>, pr |-> [n \in PRNumbers |-> NoPR]]})
    /\ ~config.autoMerge.enabled

NextSequence ==
    \/ Awaited /\ messageHandlers = <<>> /\ Initialize
    \/ Awaited /\ PublishSettles
    \/ \E i \in 1..(2 * MaxInits), outcome \in {"resolved", "rejected"} :
          HandlerSettles(i, outcome)
    \/ Awaited /\ delivery.settled # "pending"
               /\ \E opts \in SequenceOptions : RunStart(1, opts, MaxRuns)
    \/ AgentExecuteDelivers(1, {<<>>})
    \/ AgentBroadcastDelivered(1)
    \/ ListOpenPRs(1)

SpecSequence == InitSequence /\ [][NextSequence]_vars

\* awaited run() calls on a gateway whose calls may fail, with every awaited
\* execute, broadcast and gateway call settling in the end
ReturnOptions == {o \in RunOptions : o.agents = None /\ ~o.dryRun}

InitReturns == InitWith({<<"a1">>, <<"a1", "a2">>}, FewGateways)

NextReturns ==
    \/ Awaited /\ messageHandlers = <<>> /\ Initialize
    \/ Awaited /\ \E opts \in ReturnOptions :
                     RunStart(1, opts, MaxReturnRuns)
    \/ AgentSteps
    \/ PRSteps
    \/ \E p \in Procs : ListOpenPRsFails(p)

SpecReturns == InitReturns /\ [][NextReturns]_vars

\* an awaited promise settles: the step that follows it is taken
AwaitsSettle ==
    \A p \in Procs :
       /\ WF_vars(AgentExecute(p, {<<>>}))
       /\ WF_vars(AgentBroadcast(p))
       /\ WF_vars(ListOpenPRs(p) \/ ListOpenPRsFails(p))
       /\ WF_vars(ProcessPR(p))
       /\ WF_vars(AutoMergeReady(p))

FairReturns == SpecReturns /\ AwaitsSettle

\* canWrite of agents with one write path that holds no wildcard
InitLiteral ==
    /\ InitWith({<<>>},
                {[openPRs |-> <<>>, pr |-> [n \in PRNumbers |-> NoPR]]})
    /\ ~config.autoMerge.enabled

NextLiteral ==
    lastCall = NoCall /\ \E pattern \in LiteralPatterns, path \in LiteralPaths :
                            CanWrite([writePaths |-> <<pattern>>,
                                      readPaths |-> None], path)

SpecLiteral == InitLiteral /\ [][NextLiteral]_vars

\* a coordinator whose registry changes after initialize(): its client
\* awaits each createAgent, removeAgent, initialize() and run() call
MembershipOptions == {[DefaultOptions EXCEPT !.skipPRProcessing = TRUE]}

InitMembership ==
    /\ InitWith({<<"a1">>},
                {[openPRs |-> <<>>, pr |-> [n \in PRNumbers |-> NoPR]]})
    /\ ~config.autoMerge.enabled

NextMembership ==
    \/ Awaited /\ Quiet /\ Initialize
    \/ Awaited /\ Quiet /\ messageHandlers # <<>>
               /\ \E cfg \in AgentConfigs : CreateAgent("mock", cfg)
    \/ Awaited /\ Quiet /\ messageHandlers # <<>>
               /\ \E id \in AgentIds : RemoveAgent(id)
    \/ Awaited /\ Quiet /\ messageHandlers # <<>>
               /\ \E opts \in MembershipOptions :
                     RunStart(1, opts, MaxRegistryCalls)
    \/ AgentExecuteDelivers(1, {<<>>})
    \/ \E i \in 1..(2 * MaxInits), outcome \in {"resolved", "rejected"} :
          HandlerSettles(i, outcome)
    \/ Awaited /\ PublishSettles
    \/ AgentBroadcastDelivered(1)

SpecMembership == InitMembership /\ [][NextMembership]_vars

\* configurations of up to two agents, validated one at a time
InitConfig ==
    /\ InitWith({<<>>},
                {[openPRs |-> <<>>, pr |-> [n \in PRNumbers |-> NoPR]]})
    /\ ~config.autoMerge.enabled

NextConfig ==
    lastCall = NoCall /\ \E cfg \in SystemConfigs : ValidateConfig(cfg)

SpecConfig == InitConfig /\ [][NextConfig]_vars

\* the message bus with subscriptions changing while a message is being
\* delivered, by the handlers and by other code
InitInFlight ==
    /\ InitWith({<<>>}, {[openPRs |-> <<>>, pr |-> [n \in PRNumbers |-> NoPR]]})
    /\ ~config.autoMerge.enabled

NextInFlight ==
    \/ MapDone /\ \E id \in AgentIds, handler \in Handlers :
                     Subscribe(id, handler)
    \/ MapDone /\ \E id \in AgentIds, handler \in Handlers :
                     Unsubscribe(id, handler)
    \/ \E from \in Senders, to \in Targets : PublishResolves(from, to)
    \/ \E op \in {"none", "subscribe", "unsubscribe"}, id \in AgentIds,
          x \in Handlers : InvokeNext(op, id, x)
    \/ MapDone /\ \E i \in 1..MaxSubscriptions,
                      outcome \in {"resolved", "rejected"} :
                     HandlerSettles(i, outcome)
    \/ MapDone /\ PublishSettles

SpecInFlight == InitInFlight /\ [][NextInFlight]_vars

\* the message bus on its own; its client awaits each publish and leaves
\* the subscriptions alone while a message is being delivered
InitBus ==
    /\ InitWith({<<>>}, {[openPRs |-> <<>>, pr |-> [n \in PRNumbers |-> NoPR]]})
    /\ ~config.autoMerge.enabled

NextBus ==
    \/ Quiet /\ \E id \in AgentIds, handler \in Handlers :
                   Subscribe(id, handler)
    \/ Quiet /\ \E id \in AgentIds, handler \in Handlers :
                   Unsubscribe(id, handler)
    \/ \E from \in Senders, to \in Targets : Publish(from, to)
    \/ \E i \in 1..MaxSubscriptions, outcome \in {"resolved", "rejected"} :
          HandlerSettles(i, outcome)
    \/ PublishSettles

SpecBus == InitBus /\ [][NextBus]_vars

----------------------------------------------------------------------------
(* Properties of run() *)

AgentErrorCount(r) ==
    Cardinality({j \in DOMAIN r.errors : r.errors[j].source = "Agent"})

ExecuteFailures(r) ==
    {j \in DOMAIN r.errors : r.errors[j].message = "execute failed"}

HandlerFailures(r) ==
    {j \in DOMAIN r.errors : r.errors[j].message = "handler failed"}

ResultsOf(r, a) ==
    {j \in DOMAIN r.agentResults : r.agentResults[j].agentId = a}

\* C1: a run whose body completed without the outer catch is 'success' iff
\* it has no errors, 'partial' iff it has errors and agent results, and
\* 'failure' iff it has errors and no agent results.
C1_StatusFollowsErrors ==
    \A i \in DOMAIN returned :
        ~returned[i].escaped =>
            LET r == returned[i].result
            IN /\ r.status = "success" <=> r.errors = <<>>
               /\ r.status = "partial" <=>
                     (r.errors # <<>> /\ r.agentResults # <<>>)
               /\ r.status = "failure" <=>
                     (r.errors # <<>> /\ r.agentResults = <<>>)

\* a run of two agents with one throwing, and a run whose only agent throws
C1_Witness ==
    \E i, j \in DOMAIN returned :
        /\ ~returned[i].escaped /\ ~returned[j].escaped
        /\ returned[i].result.status = "partial"
        /\ Len(returned[i].resolved) = 2
        /\ Cardinality(ExecuteFailures(returned[i].result)) = 1
        /\ returned[j].result.status = "failure"
        /\ Len(returned[j].resolved) = 1

\* C2: an agent whose execute fails gets exactly one "Agent <id>: ..." error
\* and no result, the later agents still run, and agent results plus agent
\* errors number the agents of the resolved set.
C2_OneOutcomePerAgent ==
    \A i \in DOMAIN returned :
        LET r == returned[i].result
        IN /\ \A j \in ExecuteFailures(r) :
                /\ Cardinality({k \in DOMAIN r.errors :
                        r.errors[k].source = "Agent"
                        /\ r.errors[k].id = r.errors[j].id}) = 1
                /\ ResultsOf(r, r.errors[j].id) = {}
           /\ Len(r.agentResults) + AgentErrorCount(r)
                 = Len(returned[i].resolved)

\* C3: a handler failing during the task_completed broadcast ends the run:
\* no later agent is executed, the status is 'failure', the state 'error'.
C3_HandlerFailureAbortsRun ==
    /\ \A p \in Procs :
          InRunBody(p) => HandlerFailures(calls[p].result) = {}
    /\ \A i \in DOMAIN returned :
          LET r == returned[i].result
              resolved == returned[i].resolved
          IN \A j \in HandlerFailures(r) :
                /\ r.status = "failure"
                /\ returned[i].state = "error"
                /\ Len(r.agentResults) + Cardinality(ExecuteFailures(r))
                      <= CHOOSE k \in DOMAIN resolved :
                            resolved[k] = r.errors[j].id

----------------------------------------------------------------------------
(* Properties of the coordinator's lifecycle *)

\* C4: 'stopped' is terminal: once the state is 'stopped' no call changes it.
C4_StoppedIsTerminal == [][state = "stopped" => state' = "stopped"]_vars

EscapedIn(r) == \E j \in DOMAIN r.errors : r.errors[j].source = "Coordinator"

C5_Step ==
    LET started == clock' = clock + 1
        finished == Len(returned') = Len(returned) + 1
    IN IF finished
       THEN state' = (IF EscapedIn(returned'[Len(returned')].result)
                      THEN "error" ELSE "idle")
       ELSE IF started THEN state' = "processing"
       ELSE IF \E p \in Procs : InRunBody(p) THEN state' = state
       ELSE /\ state' \in {state, "running", "stopped"}
            /\ messageHandlers' # messageHandlers => state' = "running"

----------------------------------------------------------------------------
(* Properties of PR processing *)

\* the runs made in dry-run mode, finished or in flight, by their timestamp
DryRunStamps ==
    {returned[i].result.timestamp :
        i \in {j \in DOMAIN returned : returned[j].opts.dryRun}}
    \cup {calls[p].result.timestamp :
        p \in {q \in Procs : InRunBody(q) /\ calls[q].opts.dryRun}}

\* C7: a dry run never calls the gateway's mergePR or closePR.
C7_DryRunCallsNoMerge ==
    \A j \in DOMAIN gatewayCalls : gatewayCalls[j].by \notin DryRunStamps

\* a dry run that decided to merge a PR which also qualifies for auto-merge,
\* after a run that did merge
C7_Witness ==
    /\ Len(returned) = 2 /\ gatewayCalls # <<>>
    /\ config.autoMerge.enabled
    /\ returned[2].opts.dryRun
    /\ \E k \in DOMAIN returned[2].result.prDecisions :
          LET d == returned[2].result.prDecisions[k]
          IN /\ d.action = "merge"
             /\ gateway.pr[d.prNumber].autoMergeEnabled
             /\ gateway.pr[d.prNumber].checksPassed

NumbersAndActions(ds) ==
    [k \in DOMAIN ds |-> <<ds[k].prNumber, ds[k].action>>]

StoredActions(store) == [n \in DOMAIN store |-> store[n].action]

\* C8: with PR processing and global auto-merge enabled, a dry run and a
\* non-dry run over the same gateway answers return the same PR numbers and
\* actions in the same order and leave the same decisions in the store.
C8_DryRunSameDecisions ==
    config.autoMerge.enabled =>
        \A i, j \in DOMAIN returned :
            (/\ ~returned[i].opts.skipPRProcessing
             /\ ~returned[j].opts.skipPRProcessing
             /\ returned[i].opts.dryRun /\ ~returned[j].opts.dryRun)
            => /\ NumbersAndActions(returned[i].result.prDecisions)
                    = NumbersAndActions(returned[j].result.prDecisions)
               /\ StoredActions(returned[i].store)
                    = StoredActions(returned[j].store)

\* the gateway calls made by the API call stamped t
CallsBy(t) == SelectSeq(gatewayCalls, LAMBDA c : c.by = t)

\* the listed PRs with autoMergeEnabled for which all required checks passed
ReadyPRs ==
    SelectSeqBy(gateway.openPRs,
                {n \in PRNumbers : gateway.pr[n].autoMergeEnabled
                                   /\ gateway.pr[n].checksPassed})

\* C9: autoMergeReady returns a merge decision for exactly the open PRs with
\* autoMergeEnabled and all required checks passed, in listing order, and has
\* by then called the gateway's merge once for each of them and for no other.
C9_AutoMergeExactlyReady ==
    mgrLast.op = "autoMergeReady" =>
        /\ ~mgrLast.threw
        /\ NumbersAndActions(mgrLast.value)
              = [k \in DOMAIN ReadyPRs |-> <<ReadyPRs[k], "merge">>]
        /\ CallsBy(mgrLast.at)
              = [k \in DOMAIN ReadyPRs |-> MergeCall(ReadyPRs[k], mgrLast.at)]

\* two PRs listed: the second listed is ready, the first has auto-merge
\* enabled but its checks have not passed
C9_Witness ==
    /\ mgrLast.op = "autoMergeReady"
    /\ gateway.openPRs = <<2, 1>>
    /\ gateway.pr[2].autoMergeEnabled /\ ~gateway.pr[2].checksPassed
    /\ ReadyPRs = <<1>>
    /\ Len(mgrLast.value) = 1

\* C10: the decision of processPR for a resolved PR follows from the CI
\* status alone: 'success' merges; 'failure' and 'error' ask for review with
\* the status in the reason; anything else waits with waitConditions
\* ["CI checks must complete"]; waitConditions is set only for 'wait'.
C10_DecisionFromCIStatus ==
    (mgrLast.op = "processPR" /\ ~mgrLast.threw) =>
        LET d == mgrLast.value[1]
            ci == gateway.pr[mgrLast.prNumber].ciStatus
        IN /\ d.prNumber = mgrLast.prNumber
           /\ ci = "success" => d.action = "merge"
           /\ ci \in {"failure", "error"} =>
                 (d.action = "review" /\ ci \in Range(d.reason))
           /\ ci \notin {"success", "failure", "error"} =>
                 /\ d.action = "wait"
                 /\ d.waitConditions = Some(<<"CI checks must complete">>)
           /\ d.waitConditions # None => d.action = "wait"

\* a cancelled PR that otherwise qualifies for auto-merge waits
C10_Witness ==
    /\ mgrLast.op = "processPR" /\ ~mgrLast.threw
    /\ gateway.pr[mgrLast.prNumber].ciStatus = "cancelled"
    /\ gateway.pr[mgrLast.prNumber].autoMergeEnabled
    /\ gateway.pr[mgrLast.prNumber].checksPassed
    /\ mgrLast.value[1].action = "wait"

----------------------------------------------------------------------------
(* Properties of the PR manager *)

\* C11: processPR(n) for a PR number the gateway does not resolve fails with
\* the 'not found' error, has asked the gateway nothing but getPR(n) (no CI
\* status query, no merge or close) and leaves the decision store unchanged.
C11_NotFoundTouchesNothing ==
    (mgrLast.op = "processPR" /\ ~gateway.pr[mgrLast.prNumber].resolves) =>
        /\ mgrLast.threw
        /\ mgrLast.error = Some(<<"PR #", mgrLast.prNumber, " not found">>)
        /\ mgrLast.value = None
        /\ mgrLast.queries = <<GetPRQuery(mgrLast.prNumber)>>
        /\ CallsBy(mgrLast.at) = <<>>
        /\ decisions = mgrLast.before
        /\ getDecision(decisions, mgrLast.prNumber)
              = getDecision(mgrLast.before, mgrLast.prNumber)

\* an unresolved PR processed after a decision for another PR was stored
C11_Witness ==
    /\ mgrLast.op = "processPR" /\ mgrLast.threw
    /\ ~gateway.pr[mgrLast.prNumber].resolves
    /\ gateway.pr[mgrLast.prNumber].ciStatus = "pending"
    /\ DOMAIN decisions # {} /\ mgrLast.prNumber \notin DOMAIN decisions

Last(s) == s[Len(s)]

\* the decisions written for PR n, in the order they were written
RecordedFor(n) == SelectSeq(recorded, LAMBDA d : d.prNumber = n)

\* C12: the store keeps at most one decision per PR number, last write
\* wins: getDecision(n) is the decision most recently written for n by
\* recordDecision or a successful processPR (absent if none), and a write
\* for n leaves the stored decision of every other PR number as it was.
C12_LastWriteWins ==
    /\ \A n \in PRNumbers :
          getDecision(decisions, n) =
             (IF RecordedFor(n) = <<>> THEN None
              ELSE Some(Last(RecordedFor(n))))
    /\ \A n \in DOMAIN decisions : decisions[n].prNumber = n
    /\ (mgrLast.op = "recordDecision"
         \/ (mgrLast.op = "processPR" /\ ~mgrLast.threw)) =>
          /\ recorded # <<>> /\ Last(recorded).prNumber = mgrLast.prNumber
          /\ getDecision(decisions, mgrLast.prNumber) = Some(Last(recorded))
          /\ \A m \in PRNumbers \ {mgrLast.prNumber} :
                getDecision(decisions, m) = getDecision(mgrLast.before, m)

\* a decision of processPR overwritten by hand with another action
C12_Witness ==
    /\ Len(recorded) = 2
    /\ recorded[1].prNumber = recorded[2].prNumber
    /\ recorded[1].action = "review" /\ recorded[2].action = "close"
    /\ mgrLast.op = "recordDecision"
    /\ getDecision(decisions, mgrLast.prNumber) = mgrLast.arg

\* C13: executeDecision makes, for 'merge', exactly one mergePR call for the
\* decision's PR number and returns its answer; for 'close', exactly one
\* closePR call with the decision's reason as comment and returns its
\* answer; for 'wait' and 'review' no gateway call, returning true; and it
\* never changes the decision store.
C13_ExecuteDispatches ==
    mgrLast.op = "executeDecision" =>
        LET d == mgrLast.arg[1]
            made == CallsBy(mgrLast.at)
        IN /\ d.action = "merge" =>
                 /\ made = <<[op |-> "mergePR", prNumber |-> d.prNumber,
                              comment |-> None, by |-> mgrLast.at]>>
                 /\ mgrLast.value = mgrLast.answer
           /\ d.action = "close" =>
                 /\ made = <<[op |-> "closePR", prNumber |-> d.prNumber,
                              comment |-> Some(d.reason),
                              by |-> mgrLast.at]>>
                 /\ mgrLast.value = mgrLast.answer
           /\ d.action \in {"wait", "review"} =>
                 (made = <<>> /\ mgrLast.value = Some(TRUE))
           /\ mgrLast.queries = <<>>
           /\ ~mgrLast.threw
           /\ decisions = mgrLast.before
           /\ Len(gatewayCalls) - Len(made)
                 = Cardinality({i \in DOMAIN gatewayCalls :
                                   gatewayCalls[i].by < mgrLast.at})

\* a 'close' the gateway refused, executed over a store that holds a
\* decision for another action
C13_Witness ==
    /\ mgrLast.op = "executeDecision"
    /\ mgrLast.arg[1].action = "close" /\ mgrLast.value = Some(FALSE)
    /\ DOMAIN decisions # {}
    /\ Len(gatewayCalls) = 1

----------------------------------------------------------------------------
(* Properties of the agent selection *)

IsPrefix(s, t) == Len(s) <= Len(t) /\ s = SubSeq(t, 1, Len(s))

\* the agents a run with options o is to execute, in order
Selected(o) ==
    IF o.agents = None THEN registry
    ELSE SelectSeq(o.agents[1], LAMBDA id : \E k \in DOMAIN registry :
                                               registry[k] = id)

\* C18: with an explicit list run() invokes execute on the registered agents
\* of the list, in list order, and on no other; an unregistered id of the
\* list adds no error and does not fail the run; without a list every
\* registered agent is executed.
C18_ExecutesSelection ==
    /\ \A p \in Procs :
          InRunBody(p) => IsPrefix(calls[p].executed, Selected(calls[p].opts))
    /\ \A i \in DOMAIN returned :
          LET r == returned[i].result
          IN /\ returned[i].executed = Selected(returned[i].opts)
             /\ \A j \in DOMAIN r.errors :
                   /\ r.errors[j].source = "Agent"
                   /\ r.errors[j].id \in Range(returned[i].executed)
             /\ r.errors = <<>> => r.status = "success"
             /\ ~returned[i].escaped

\* a list against registration order with an unknown id in the middle: both
\* registered agents ran, in list order, and the run succeeded
C18_Witness ==
    \E i \in DOMAIN returned :
        /\ returned[i].opts.agents = Some(<<"a2", "ghost", "a1">>)
        /\ registry = <<"a1", "a2">>
        /\ returned[i].executed = <<"a2", "a1">>
        /\ returned[i].result.status = "success"
        /\ Len(returned[i].result.agentResults) = 2

\* the agent whose execute call p is awaiting
Executing(p) == calls[p].agentsToRun[calls[p].idx]

\* C19: no two invocations of the same agent's execute are in progress at
\* the same time, whatever the interleaving of coordinator calls, a run()
\* started before an earlier run() returned included.
C19_NoConcurrentExecute ==
    \A p, q \in Procs :
        (p # q /\ calls[p].pc = "execute" /\ calls[q].pc = "execute")
            => Executing(p) # Executing(q)

\* C20: every path in the filesChanged of an agent result that run() took
\* into agentResults, or announced in a task_completed broadcast, satisfies
\* canWrite for the agent that produced it.
C20_ChangedFilesInDomain ==
    \A i \in DOMAIN returned :
        /\ \A j \in DOMAIN returned[i].result.agentResults :
              LET ar == returned[i].result.agentResults[j]
              IN \A k \in DOMAIN ar.filesChanged :
                    canWrite(Domain(ar.agentId), ar.filesChanged[k])
        /\ \A j \in DOMAIN returned[i].signals :
              LET sg == returned[i].signals[j].payload
              IN \A k \in DOMAIN sg.filesChanged :
                    canWrite(Domain(sg.agentId), sg.filesChanged[k])

\* the signal C22 expects for the agent result ar
SignalFor(ar) ==
    [from |-> "coordinator", to |-> "broadcast", type |-> "signal",
     payload |-> [signal |-> "task_completed", agentId |-> ar.agentId,
                  status |-> ar.status, filesChanged |-> ar.filesChanged]]

\* what C22 says of the results, signals and executes of one run() call,
\* finished or suspended at the await pc: one signal per result, and every
\* execute invoked before the current one has left a signal or an error
SignalsFollowResults(r, signals, executed, pc) ==
    LET handled == Len(signals) + Cardinality(ExecuteFailures(r))
    IN /\ Len(signals) = Len(r.agentResults)
       /\ \A j \in DOMAIN signals : signals[j] = SignalFor(r.agentResults[j])
       /\ handled = (IF pc = "execute" THEN Len(executed) - 1
                     ELSE Len(executed))

\* C22: for each agent whose execute succeeded run() has broadcast exactly
\* one 'signal' message from 'coordinator' carrying task_completed, the
\* agent's id, its status and its changed files, once the result was
\* appended and before the next agent's execute began; for an agent whose
\* execute failed it has broadcast none.
C22_OneSignalPerSuccess ==
    /\ \A p \in Procs :
          InRunBody(p) =>
             SignalsFollowResults(calls[p].result, calls[p].signals,
                                  calls[p].executed, calls[p].pc)
    /\ \A i \in DOMAIN returned :
          SignalsFollowResults(returned[i].result, returned[i].signals,
                               returned[i].executed, "idle")

\* the second agent is executing after the first one's signal, with a
\* changed file, went out; the run before had an agent fail
C22_Witness ==
    /\ \E p \in Procs :
          /\ calls[p].pc = "execute" /\ Len(calls[p].executed) = 2
          /\ Len(calls[p].signals) = 1
          /\ calls[p].signals[1].payload.filesChanged # <<>>
    /\ Len(returned) = 1
    /\ ExecuteFailures(returned[1].result) # {}
    /\ Len(returned[1].signals) = 1

\* the runs before run t that hold a result of agent a
EarlierRunsWith(a, t) ==
    {m \in 1..(t - 1) :
        m \in DOMAIN runHistory
        /\ \E j \in DOMAIN runHistory[m].agentResults :
              runHistory[m].agentResults[j].agentId = a}

\* what C23 says of the contexts a run stamped t handed to its executes
PreviousRunsAreLatest(t, executed, contexts) ==
    /\ Len(contexts) = Len(executed)
    /\ \A k \in DOMAIN executed :
          LET earlier == EarlierRunsWith(executed[k], t)
              prev == contexts[k].previousRun
          IN IF earlier = {} THEN prev = None
             ELSE LET m == CHOOSE x \in earlier : \A y \in earlier : y <= x
                  IN /\ prev # None
                     /\ prev[1].agentId = executed[k]
                     /\ prev[1].timestamp = m
                     /\ prev[1] \in Range(runHistory[m].agentResults)
                     /\ prev[1].timestamp < t

\* C23: the previousRun handed to an agent's execute is that agent's result
\* in the most recent earlier run of the history that holds one, runs in
\* which the agent did not run or failed being skipped; it is absent when
\* no earlier run holds one, and it is never of the run in progress.
C23_PreviousRunIsLatest ==
    /\ \A p \in Procs :
          InRunBody(p) =>
             PreviousRunsAreLatest(calls[p].result.timestamp,
                                   calls[p].executed, calls[p].contexts)
    /\ \A i \in DOMAIN returned :
          PreviousRunsAreLatest(returned[i].result.timestamp,
                                returned[i].executed, returned[i].contexts)

\* a1 succeeded in run 1, was left out of or failed in run 2, and is handed
\* its result of run 1 in run 3, while a2 is handed its result of run 2
C23_Witness ==
    /\ Len(returned) = 3
    /\ EarlierRunsWith("a1", 3) = {1}
    /\ EarlierRunsWith("a2", 3) = {1, 2}
    /\ returned[3].executed = <<"a1", "a2">>
    /\ returned[3].contexts[1].previousRun # None
    /\ returned[3].contexts[1].previousRun[1].timestamp = 1
    /\ returned[3].contexts[2].previousRun[1].timestamp = 2
    /\ returned[1].contexts[1].previousRun = None

----------------------------------------------------------------------------
(* Properties of the message bus *)

Count(s, x) == Cardinality({i \in DOMAIN s : s[i] = x})

\* the handlers the latest publish invoked
Invoked == [i \in DOMAIN delivery.handlers |-> delivery.handlers[i].handler]

\* how often handler x is registered under id
RegisteredUnder(id, x) ==
    Cardinality({<<i, j>> \in (DOMAIN messageHandlers) \X (1..MaxSubscriptions) :
                    /\ messageHandlers[i].agentId = id
                    /\ j \in DOMAIN messageHandlers[i].handlers
                    /\ messageHandlers[i].handlers[j] = x})

RECURSIVE Sum(_, _)
Sum(f, S) ==
    IF S = {} THEN 0
    ELSE LET x == CHOOSE y \in S : TRUE IN f[x] + Sum(f, S \ {x})

\* C14: a broadcast from sender S invokes every handler once for each of its
\* registrations under an id other than S, and for no registration under S,
\* also when S is subscribed itself.
C14_BroadcastSparesSender ==
    (delivery.settled = "pending" /\ delivery.to = "broadcast") =>
        \A x \in Handlers :
            Count(Invoked, x) =
               Sum([id \in AgentIds |-> RegisteredUnder(id, x)],
                   AgentIds \ {delivery.from})

\* a subscribed sender broadcasts; its handler is also registered under the
\* other id
C14_Witness ==
    /\ delivery.settled = "pending" /\ delivery.to = "broadcast"
    /\ delivery.from \in AgentIds
    /\ \E x \in Handlers :
          /\ RegisteredUnder(delivery.from, x) = 1
          /\ Count(Invoked, x) = 1

\* C15: a message for agent id T invokes each handler once per registration
\* under T and for no registration under another id; a message for an id
\* without handlers invokes nothing and its publish does not fail.
C15_DirectOnlyTarget ==
    /\ (delivery.settled = "pending" /\ delivery.to \in AgentIds) =>
          /\ \A x \in Handlers :
                Count(Invoked, x) = RegisteredUnder(delivery.to, x)
          /\ (\A x \in Handlers : RegisteredUnder(delivery.to, x) = 0)
                => Invoked = <<>>
    /\ Invoked = <<>> => delivery.settled # "rejected"

\* a publish to an id without handlers has completed, while two handlers
\* are registered under the other id
C15_Witness ==
    /\ delivery.settled = "resolved" /\ delivery.to \in AgentIds
    /\ Invoked = <<>>
    /\ \E id \in AgentIds \ {delivery.to} :
          \A x \in Handlers : RegisteredUnder(id, x) = 1

\* C16: once publish has completed, fulfilled or rejected, no handler it
\* invoked for the message is still running.
C16_PublishOutlastsHandlers ==
    delivery.settled \in {"resolved", "rejected"} =>
        \A i \in DOMAIN delivery.handlers :
            delivery.handlers[i].status # "running"

\* the registrations of x under id in the registry h
CountUnder(h, id, x) == Count(HandlersOf(h, id), x)

\* C17 as stated: unsubscribe(id, h) twice leaves the registry that calling
\* it once leaves, and for an id or handler that is not registered it
\* leaves the registry unchanged.
C17_UnsubscribeIdempotent ==
    \A id \in AgentIds, x \in Handlers :
        LET once == unsubscribe(messageHandlers, id, x)
        IN /\ unsubscribe(once, id, x) = once
           /\ CountUnder(messageHandlers, id, x) = 0
                 => once = messageHandlers

\* C17 amended: unsubscribe(id, h) removes the first registration of h under
\* id and nothing else, so calling it twice equals calling it once whenever
\* h is registered at most once under id; for an id or handler that is not
\* registered it leaves the registry unchanged.
C17_UnsubscribeRemovesFirst ==
    \A id \in AgentIds, x \in Handlers :
        LET once == unsubscribe(messageHandlers, id, x)
            n == CountUnder(messageHandlers, id, x)
        IN /\ CountUnder(once, id, x) = (IF n = 0 THEN 0 ELSE n - 1)
           /\ \A other \in AgentIds, y \in Handlers :
                 (other # id \/ y # x) =>
                    CountUnder(once, other, y)
                       = CountUnder(messageHandlers, other, y)
           /\ n <= 1 => unsubscribe(once, id, x) = once
           /\ n = 0 => once = messageHandlers
           /\ n > 0 =>
                 \E k \in DOMAIN HandlersOf(messageHandlers, id) :
                    /\ HandlersOf(messageHandlers, id)[k] = x
                    /\ \A j \in 1..(k - 1) :
                          HandlersOf(messageHandlers, id)[j] # x
                    /\ HandlersOf(once, id) =
                          SubSeq(HandlersOf(messageHandlers, id), 1, k - 1)
                          \o SubSeq(HandlersOf(messageHandlers, id), k + 1,
                                    Len(HandlersOf(messageHandlers, id)))

\* an unsubscribe has emptied one id's handler list, and a handler is
\* registered twice under the other id
C17_Witness ==
    \E i, j \in DOMAIN messageHandlers :
        /\ messageHandlers[i].handlers = <<>>
        /\ \E x \in Handlers : Count(messageHandlers[j].handlers, x) = 2

----------------------------------------------------------------------------
(* Properties of auto-merge *)

Blocked(n) == gateway.pr[n].labels \cap blockingLabels # {}

\* whether the API call stamped `at` called mergePR for PR n
MergedBy(n, at) ==
    \E i \in DOMAIN gatewayCalls :
        /\ gatewayCalls[i].op = "mergePR"
        /\ gatewayCalls[i].prNumber = n
        /\ gatewayCalls[i].by = at

IsAutoMerge(d) == d.reason = <<"Auto-merge: all required checks passed">>

\* C21: a PR that carries one of the configured blocking labels is never
\* merged by autoMergeReady, called directly or as the auto-merge step of
\* run(), even when auto-merge is enabled for it and its checks pass.
C21_BlockedNeverAutoMerged ==
    /\ mgrLast.op = "autoMergeReady" =>
          \A k \in DOMAIN mgrLast.value :
              MergedBy(mgrLast.value[k].prNumber, mgrLast.at)
                 => ~Blocked(mgrLast.value[k].prNumber)
    /\ \A i \in DOMAIN returned :
          \A k \in DOMAIN returned[i].result.prDecisions :
              LET d == returned[i].result.prDecisions[k]
              IN (IsAutoMerge(d)
                  /\ MergedBy(d.prNumber, returned[i].result.timestamp))
                    => ~Blocked(d.prNumber)

----------------------------------------------------------------------------
(* Properties of initialize() *)

\* how many forwarding handlers the bus holds
Forwarding(h) ==
    IF h = <<>> THEN 0
    ELSE Len(SelectSeq(BroadcastTargets(h, ""),
                       LAMBDA x : x.kind = "forward"))

\* a step of an initialize() call
InitializeStep ==
    /\ state' = "running"
    /\ \/ state # "running"
       \/ Forwarding(messageHandlers') > Forwarding(messageHandlers)

\* the subscriptions and the broadcast of one initialize() call
C24_InitializeSubscribes ==
    InitializeStep =>
       /\ \A a \in AgentIds :
             CountUnder(messageHandlers', a, ForwardHandler(a)) =
                CountUnder(messageHandlers, a, ForwardHandler(a))
                + (IF a \in Range(registry) THEN 1 ELSE 0)
       /\ \A id \in AgentIds, x \in Handlers \cup
                                    {ForwardHandler(b) : b \in AgentIds} :
             x # ForwardHandler(id) =>
                CountUnder(messageHandlers', id, x) =
                   CountUnder(messageHandlers, id, x)
       /\ delivery'.from = "coordinator"
       /\ delivery'.to = "broadcast"
       /\ delivery'.type = "status"
       /\ delivery'.payload = CoordinatorInitialized
       /\ delivery'.settled = "pending"
       /\ \A a \in Range(registry) :
             Count([i \in DOMAIN delivery'.handlers |->
                      delivery'.handlers[i].handler], ForwardHandler(a)) =
                CountUnder(messageHandlers', a, ForwardHandler(a))

\* a message for a registered agent, or a broadcast of another sender,
\* published after initialize() was handed to the agent's handleMessage
C24_ReachesAgents ==
    state = "running" =>
       \A a \in Range(registry) :
          (delivery.to = a \/ (delivery.to = "broadcast" /\ delivery.from # a))
             => Count(Invoked, ForwardHandler(a)) >= 1

\* C24: initialize() subscribes for every registered agent one handler that
\* forwards the messages delivered to the agent's id to its handleMessage,
\* then broadcasts one 'status' message coordinator_initialized from
\* 'coordinator'; afterwards every message published to a registered
\* agent's id and every broadcast from another sender reaches the agent's
\* handleMessage.
C24_InitializeWiresAgents ==
    [][C24_InitializeSubscribes]_vars /\ []C24_ReachesAgents

\* after initialize() with two agents, a1 broadcast a signal and the
\* forwarding handler of a2 ran to its end
C24_Witness ==
    /\ state = "running"
    /\ registry = <<"a1", "a2">>
    /\ delivery.type = "signal"
    /\ delivery.to = "broadcast"
    /\ delivery.from = "a1"
    /\ \E i \in DOMAIN delivery.handlers :
          /\ delivery.handlers[i].handler = ForwardHandler("a2")
          /\ delivery.handlers[i].status = "resolved"
    /\ delivery.settled = "resolved"

----------------------------------------------------------------------------
(* Properties of the agent registry *)

\* the agents the registry held before its last call
AgentsBefore ==
    {regLast.before.agents[id] : id \in Range(regLast.before.registry)}

\* C25: createAgent(typeName, config) fails with an 'unknown type' error and
\* leaves the agent map unchanged when typeName has no factory; otherwise it
\* stores the new agent under config.id in place of any agent stored there,
\* so that getAgent(config.id) returns the new agent, and the number of
\* registered agents is the number of distinct ids created and not removed.
C25_CreateAgentStores ==
    /\ regLast.op = "createAgent" =>
          IF regLast.type \notin regLast.before.factories
          THEN /\ regLast.threw
               /\ regLast.error = Some(UnknownType(regLast.type))
               /\ registry = regLast.before.registry
               /\ agents = regLast.before.agents
          ELSE /\ ~regLast.threw
               /\ regLast.value # None
               /\ regLast.value[1].id = regLast.id
               /\ regLast.value[1].type = regLast.type
               /\ regLast.value[1] \notin AgentsBefore
               /\ getAgent(regLast.id) = regLast.value
               /\ \A id \in AgentIds \ {regLast.id} :
                     getAgent(id) =
                        IF id \in Range(regLast.before.registry)
                        THEN Some(regLast.before.agents[id]) ELSE None
    /\ Len(getAllAgents) = Cardinality(regLast.live)
    /\ Range(IdsOf(getAllAgents)) = regLast.live

\* createAgent replaced the agent of an id while another id is registered
C25_Witness ==
    /\ regLast.op = "createAgent"
    /\ ~regLast.threw
    /\ regLast.id \in Range(regLast.before.registry)
    /\ getAgent(regLast.id) # Some(regLast.before.agents[regLast.id])
    /\ Len(registry) = 2

----------------------------------------------------------------------------
(* Properties of the access checks *)

\* the path matches at least one pattern of the list
MatchesOneOf(path, patterns) ==
    \E pattern \in Range(patterns) : matchPath(path, pattern)

\* C26: canWrite(A, P) is true iff P matches at least one pattern of A's
\* writePaths; canRead(A, P) is true for every P when A's readPaths is absent
\* or empty, and otherwise true iff P matches at least one pattern of
\* readPaths.
C26_AccessFollowsPatterns ==
    /\ lastCall.op = "canWrite" =>
          (lastCall.value <=>
              MatchesOneOf(lastCall.path, lastCall.domain.writePaths))
    /\ lastCall.op = "canRead" =>
          IF lastCall.domain.readPaths \in {None, Some(<<>>)}
          THEN lastCall.value
          ELSE lastCall.value <=>
                  MatchesOneOf(lastCall.path, lastCall.domain.readPaths[1])

\* canRead refused a path that matches neither of two readPaths although
\* writePaths match it
C26_Witness ==
    /\ lastCall.op = "canRead"
    /\ lastCall.domain.readPaths # None
    /\ Len(lastCall.domain.readPaths[1]) = 2
    /\ ~lastCall.value
    /\ canWrite(lastCall.domain, lastCall.path)

----------------------------------------------------------------------------
(* Properties of glob matching *)

RECURSIVE GlobMatches(_, _)
\* the wildcard semantics: the whole path is matched; '**' stands for any
\* sequence of characters, '*' for any sequence without a separator, '?' for
\* exactly one character, any other character for itself
GlobMatches(pattern, path) ==
    IF pattern = <<>> THEN path = <<>>
    ELSE IF Len(pattern) >= 2 /\ SubSeq(pattern, 1, 2) = <<"*", "*">>
    THEN \E k \in 0..Len(path) :
            GlobMatches(SubSeq(pattern, 3, Len(pattern)),
                        SubSeq(path, k + 1, Len(path)))
    ELSE IF Head(pattern) = "*"
    THEN \E k \in 0..Len(path) :
            /\ \A j \in 1..k : path[j] # "/"
            /\ GlobMatches(Tail(pattern), SubSeq(path, k + 1, Len(path)))
    ELSE IF Head(pattern) = "?"
    THEN path # <<>> /\ GlobMatches(Tail(pattern), Tail(path))
    ELSE /\ path # <<>>
         /\ Head(path) = Head(pattern)
         /\ GlobMatches(Tail(pattern), Tail(path))

\* C27: glob matching is anchored to the whole path and follows the wildcard
\* semantics: '**' matches any sequence of characters including separators,
\* '*' any sequence of characters excluding separators, '?' exactly one
\* character.
C27_GlobSemantics ==
    lastCall.op = "canWrite" /\ Len(lastCall.domain.writePaths) = 1 =>
       (lastCall.value <=>
           GlobMatches(lastCall.domain.writePaths[1], lastCall.path))

----------------------------------------------------------------------------
(* Properties of message serialization *)

RECURSIVE SameValue(_, _)
\* structural equality of two values; a key an object lacks and a key it
\* holds undefined under are read alike
SameValue(a, b) ==
    IF a.kind # b.kind THEN FALSE
    ELSE IF a.kind = "object"
    THEN \A key \in DOMAIN a.props \cup DOMAIN b.props :
            SameValue(Get(a, key), Get(b, key))
    ELSE IF a.kind = "array"
    THEN /\ Len(a.items) = Len(b.items)
         /\ \A i \in DOMAIN a.items : SameValue(a.items[i], b.items[i])
    ELSE a = b

\* C28: for every message M built by createMessage,
\* parseMessage(serializeMessage(M)) has the same id, from, to, type,
\* payload and relatedFiles as M (also when relatedFiles is absent) and a
\* timestamp denoting the same instant.
C28_RoundTrip ==
    lastCall.op = "parseMessage" =>
       /\ \A key \in {"id", "from", "to", "type", "payload", "relatedFiles"} :
             SameValue(Get(lastCall.value, key), Get(lastCall.message, key))
       /\ Get(lastCall.value, "timestamp").kind = "date"
       /\ Get(lastCall.value, "timestamp").ms =
             Get(lastCall.message, "timestamp").ms

----------------------------------------------------------------------------
(* Properties of the order of a run *)

\* the awaits of run() past the agent loop
InPRProcessing(c) == c.pc \in {"listOpenPRs", "processPR", "autoMergeReady"}

\* the latest publish on the bus is the latest task_completed broadcast of
\* the call
LatestBroadcastOf(c) ==
    /\ c.signals # <<>>
    /\ delivery.type = "signal"
    /\ delivery.from = "coordinator"
    /\ delivery.to = "broadcast"
    /\ delivery.payload = c.signals[Len(c.signals)].payload

\* the executes of a call follow the resolved list, one started after the
\* other, and PR processing follows the last of them
C29_InOrder ==
    \A p \in Procs :
       LET c == calls[p]
       IN /\ c.pc \in {"execute", "broadcast"} =>
                /\ c.idx <= Len(c.agentsToRun)
                /\ c.executed = SubSeq(c.agentsToRun, 1, c.idx)
          /\ InPRProcessing(c) => c.executed = c.agentsToRun

\* C29: within a run() the agents execute one after another in the order of
\* the resolved list: the execute of the next agent starts only after the
\* execute of the one before has finished and, if it succeeded, after every
\* handler of its task_completed broadcast has finished; PR processing
\* starts only after the last agent has been handled.
C29_OneAfterAnother ==
    /\ C29_InOrder
    /\ \A p \in Procs :
          (calls[p].pc = "execute" \/ InPRProcessing(calls[p]))
          /\ LatestBroadcastOf(calls[p])
             => \A i \in DOMAIN delivery.handlers :
                   delivery.handlers[i].status # "running"

----------------------------------------------------------------------------
(* Properties of returning from run() *)

InFlight == {p \in Procs : InRunBody(p)}

\* every run() call made so far is suspended or has returned a result, and
\* a result whose run left through the outer catch has status 'failure', a
\* last error prefixed 'Coordinator: ' and leaves the state 'error'
C30_EscapesConverted ==
    /\ Len(returned) + Cardinality(InFlight) = clock
    /\ \A i \in DOMAIN returned :
          LET r == returned[i].result
          IN IF returned[i].escaped
             THEN /\ r.status = "failure"
                  /\ r.errors # <<>>
                  /\ r.errors[Len(r.errors)].source = "Coordinator"
                  /\ returned[i].state = "error"
             ELSE ~EscapedIn(r)

\* C30: run() never fails to its caller: provided every execute, handler
\* and gateway call it awaits settles, every run() call eventually returns a
\* result, and an exception that escapes agent handling or PR processing
\* becomes a result with status 'failure', an error prefixed 'Coordinator: '
\* and the state 'error'.
C30_RunAlwaysReturns ==
    /\ []C30_EscapesConverted
    /\ \A p \in Procs : InRunBody(p) ~> ~InRunBody(p)

\* a run returned after both agents had succeeded and a listed PR could not
\* be resolved by the gateway
C30_Witness ==
    /\ returned # <<>>
    /\ \A p \in Procs : ~InRunBody(p)
    /\ \E i \in DOMAIN returned :
          /\ returned[i].escaped
          /\ Len(returned[i].result.agentResults) = 2
          /\ returned[i].result.errors = <<CoordinatorError("PR not found")>>
          /\ returned[i].result.status = "failure"
          /\ returned[i].state = "error"

----------------------------------------------------------------------------
(* Properties of the handler sequences *)

RECURSIVE Repeat(_, _, _, _, _)
\* the registry after n calls of op(id, x), op being "subscribe" or
\* "unsubscribe"
Repeat(op, n, h, id, x) ==
    IF n = 0 THEN h
    ELSE Repeat(op, n - 1,
                IF op = "subscribe" THEN subscribe(h, id, x)
                ELSE unsubscribe(h, id, x),
                id, x)

\* the entry of the first x in s, 0 if there is none
IndexOf(s, x) ==
    IF \E i \in DOMAIN s : s[i] = x
    THEN CHOOSE i \in DOMAIN s : s[i] = x /\ \A j \in 1..(i - 1) : s[j] # x
    ELSE 0

\* s without its entry i
Without(s, i) == SubSeq(s, 1, i - 1) \o SubSeq(s, i + 1, Len(s))

\* C31: the bus keeps per id an ordered handler sequence with duplicates:
\* subscribe(id, x) appends x at the end of id's sequence, also when x is in
\* it already; unsubscribe(id, x) removes the first x of id's sequence and
\* keeps the rest in order; neither touches another id's sequence; a publish
\* for id invokes the entries of id's sequence, each once and in order, so
\* that x subscribed k more times and then unsubscribed j <= k times is
\* invoked k - j more times per message.
C31_HandlerSequences ==
    /\ \A id \in AgentIds, x \in Handlers :
          LET seq == HandlersOf(messageHandlers, id)
              sub == subscribe(messageHandlers, id, x)
              uns == unsubscribe(messageHandlers, id, x)
          IN /\ HandlersOf(sub, id) = Append(seq, x)
             /\ HandlersOf(uns, id) =
                   (IF IndexOf(seq, x) = 0 THEN seq
                    ELSE Without(seq, IndexOf(seq, x)))
             /\ \A other \in AgentIds \ {id} :
                   /\ HandlersOf(sub, other) = HandlersOf(messageHandlers, other)
                   /\ HandlersOf(uns, other) = HandlersOf(messageHandlers, other)
             /\ \A k \in 0..MaxSubscriptions : \A j \in 0..k :
                      Count(deliverMessage(
                               Repeat("unsubscribe", j,
                                      Repeat("subscribe", k, messageHandlers,
                                             id, x),
                                      id, x),
                               "coordinator", id), x)
                         = Count(seq, x) + k - j
    /\ (delivery.settled = "pending" /\ delivery.to \in AgentIds) =>
          Invoked = HandlersOf(messageHandlers, delivery.to)

\* a message for an id is with a handler twice, once per registration
C31_Witness ==
    /\ delivery.settled = "pending" /\ delivery.to \in AgentIds
    /\ \E x \in Handlers : Invoked = <<x, x>>

----------------------------------------------------------------------------
(* Properties of literal pattern characters *)

\* the pattern holds neither '*' nor '?'
IsLiteral(pattern) ==
    \A i \in DOMAIN pattern : pattern[i] \notin {"*", "?"}

\* C32: in a glob pattern every character other than '*' and '?' matches
\* only the identical character of the path, so a pattern without wildcards
\* ('file.md') matches the path that equals it and no other ('fileXmd').
C32_LiteralCharacters ==
    (/\ lastCall.op = "canWrite"
     /\ Len(lastCall.domain.writePaths) = 1
     /\ IsLiteral(lastCall.domain.writePaths[1])) =>
       (lastCall.value <=> lastCall.path = lastCall.domain.writePaths[1])

----------------------------------------------------------------------------
(* Properties of the merges of a run *)

\* the mergePR calls for PR n made by the API call stamped t
MergesBy(n, t) ==
    SelectSeq(gatewayCalls,
              LAMBDA c : c.op = "mergePR" /\ c.prNumber = n /\ c.by = t)

\* the decisions about PR n among ds, in order
DecisionsFor(ds, n) == SelectSeq(ds, LAMBDA d : d.prNumber = n)

\* the runs that have returned after processing PRs
PRRuns == {i \in DOMAIN returned : ~returned[i].opts.skipPRProcessing}

\* C33: within one run() mergePR is invoked at most once per PR number,
\* whatever the PR's CI status, its autoMergeEnabled flag and the global
\* auto-merge setting are, and prDecisions holds at most one decision per PR
\* number.
C33_MergeOncePerRun ==
    \A i \in PRRuns, n \in PRNumbers :
        /\ Len(MergesBy(n, returned[i].result.timestamp)) <= 1
        /\ Len(DecisionsFor(returned[i].result.prDecisions, n)) <= 1

\* C34: run() invokes mergePR for a PR only if the CI status the gateway
\* reported for it in this run is 'success'; a PR whose decision from
\* processPR in this run is 'wait' or 'review' is not merged in that run.
C34_MergeOnlyOnSuccess ==
    \A i \in PRRuns, n \in PRNumbers :
        MergesBy(n, returned[i].result.timestamp) # <<>> =>
           /\ getCIStatus(n) = "success"
           /\ \A k \in DOMAIN returned[i].result.prDecisions :
                 LET d == returned[i].result.prDecisions[k]
                 IN d.prNumber = n => d.action \notin {"wait", "review"}

\* C35: after a run() with PR processing, for every PR number n in the
\* returned prDecisions getDecision(n) is the last decision for n in
\* prDecisions, decisions synthesized by the auto-merge step included.
C35_StoreReflectsDecisions ==
    \A i \in PRRuns, n \in PRNumbers :
        LET ds == DecisionsFor(returned[i].result.prDecisions, n)
        IN ds # <<>> => getDecision(returned[i].store, n) = Some(Last(ds))

\* C36: for each mergePR call made during a run, the returned result's
\* prDecisions holds a decision with action 'merge' for that PR number, also
\* when PR processing fails part-way.
C36_MergesReported ==
    \A i \in PRRuns, n \in PRNumbers :
        MergesBy(n, returned[i].result.timestamp) # <<>> =>
           \E k \in DOMAIN returned[i].result.prDecisions :
              /\ returned[i].result.prDecisions[k].prNumber = n
              /\ returned[i].result.prDecisions[k].action = "merge"

----------------------------------------------------------------------------
(* Properties of repeated initialize() calls *)

\* C37: however many times initialize() was called, a message delivered to
\* a registered agent's id (addressed to it, or broadcast by another sender)
\* invokes that agent's handleMessage exactly once.
C37_InitializeIdempotent ==
    state = "running" =>
       \A a \in Range(registry) :
          (delivery.to = a \/ (delivery.to = "broadcast" /\ delivery.from # a))
             => Count(Invoked, ForwardHandler(a)) = 1

----------------------------------------------------------------------------
(* Properties of the registry after initialize() *)

\* the agents whose handleMessage the latest publish invoked through a
\* handler installed by initialize()
Recipients ==
    {a \in AgentIds : Count(Invoked, ForwardHandler(a)) >= 1}

\* C38: after any sequence of createAgent, removeAgent, initialize and run
\* the agents that receive a coordinator broadcast through the handlers the
\* coordinator installed are exactly the agents in the registry at that
\* time: not an agent that was removed, and also an agent created after
\* initialize().
C38_RecipientsAreRegistered ==
    (/\ delivery.from = "coordinator" /\ delivery.to = "broadcast"
     /\ delivery.settled = "pending")
       => Recipients = Range(registry)

----------------------------------------------------------------------------
(* Properties of configuration validation *)

\* two entries of the configuration carry the same agent id
SharedId(cfg) ==
    \E i, j \in DOMAIN cfg.agents : i # j /\ cfg.agents[i].id = cfg.agents[j].id

\* two entries of the configuration list the same write-path pattern
SharedPattern(cfg) ==
    \E i, j \in DOMAIN cfg.agents :
        /\ i # j
        /\ Range(cfg.agents[i].domain.writePaths)
              \cap Range(cfg.agents[j].domain.writePaths) # {}

\* C39: if validateConfig reports a configuration as valid, no path can be
\* written by two distinct agents of it (their write domains are disjoint);
\* and validateConfig reports an error whenever two agents share an id or
\* list the same literal write-path pattern.
C39_ValidMeansDisjoint ==
    lastCall.op = "validateConfig" =>
       LET cfg == lastCall.config
       IN /\ lastCall.value.valid =>
                \A i, j \in DOMAIN cfg.agents : \A path \in AccessPaths :
                    i # j => ~(/\ canWrite(cfg.agents[i].domain, path)
                               /\ canWrite(cfg.agents[j].domain, path))
          /\ (SharedId(cfg) \/ SharedPattern(cfg)) =>
                (~lastCall.value.valid /\ lastCall.value.errors # <<>>)

----------------------------------------------------------------------------
(* Properties of a delivery in progress *)

\* a publish collects as its recipients the handlers the registry holds for
\* its target at that moment
C40_ResolvedAtPublish ==
    (Quiet /\ delivery' # delivery) =>
       /\ delivery'.settled = "pending"
       /\ Invoked' = deliverMessage(messageHandlers, delivery'.from,
                                    delivery'.to)

\* while the message is being delivered its recipients stay what they were
C40_FixedInFlight ==
    ~Quiet => (/\ Invoked' = Invoked
               /\ delivery'.from = delivery.from
               /\ delivery'.to = delivery.to)

\* C40: the handlers that receive a message are fixed when publish resolves
\* its targets: a subscribe or unsubscribe made by a handler or by other
\* code while the message is being delivered adds no recipient to it and
\* removes none, and the next publish goes by the changed registry.
C40_RecipientsFixed ==
    [][C40_ResolvedAtPublish /\ C40_FixedInFlight]_vars

\* every recipient of a message for an id has been called, and by now the
\* registry holds other handlers under that id than the message went to
C40_Witness ==
    /\ delivery.settled = "pending" /\ delivery.to \in AgentIds
    /\ MapDone /\ Len(Invoked) = 2
    /\ \A i \in DOMAIN delivery.handlers :
          delivery.handlers[i].status = "running"
    /\ HandlersOf(messageHandlers, delivery.to) = <<Invoked[2]>>

====
